---- MODULE Spec2Model ----
(***************************************************************************)
(* A model of the connection state machine of the bolt driver: the public  *)
(* operations of conn (Begin, Commit, Rollback, Query, Exec, Close), of    *)
(* rows (Next, Close), and the response consumption below them (consume,   *)
(* ackFailure, reset, consumeAll, Decoder.Discard).                        *)
(*                                                                         *)
(* The client is single threaded and every read blocks, so an operation is *)
(* a sequence of steps: one step per message written, one per message read *)
(* and one per return of consume to its caller.  The server answers each   *)
(* request when it is written; the answers wait in inbox until the client  *)
(* reads them.  A read with nothing in inbox on an open socket blocks for  *)
(* ever (conn.timeout is 0 unless configured).                             *)
(***************************************************************************)
EXTENDS Integers, Sequences, FiniteSets, TLC

\* Bounds of the model.
MaxOps == 4          \* public operations started on the connection
MaxRecords == 2      \* RECORD messages one PULL_ALL streams
MaxFaults == 1       \* reads and writes the transport fails
MaxCount == 1        \* value of one counter in the stats of a SUCCESS
MaxMillis == 1       \* value of result_consumed_after in a SUCCESS
MaxByte == 2         \* value of one byte of the server's handshake reply

VARIABLES
  status,      \* conn.status: "idle", "in_tx", "in_bad_tx"
  bad,         \* conn.bad
  sockClosed,  \* conn.conn has been closed
  decErr,      \* Decoder.lastErr # nil
  srv,         \* the server's session state: "READY", "STREAMING", "FAILED"
  inbox,       \* messages the server has written and the client has not read
  rows,        \* the rows objects handed out so far, in creation order
  op,          \* the public operation in progress, or the last one
  pc,          \* position inside that operation; "ready" after it returned
  cpc,         \* position inside conn.consume
  run,         \* runSuccess of sendRunPullAllConsumeSingle
  resp,        \* value returned by the last conn.consume
  err,         \* error returned by the last conn.consume
  fail,        \* the FAILURE conn.consume is acknowledging
  ret,         \* error returned to the caller by the last operation
  opLog,       \* the requests written and the messages read during op, in order
  entry,       \* status and bad when op was called, and the log of the operation before
  hist,        \* the operations that returned before op, with what they returned
  nops,        \* operations started so far; the id of op
  faults,      \* reads and writes that the transport has failed
  vers,        \* the four bytes handshake read from the server, <<>> before
  sum,         \* the Summary that WithSummary attached to the context
  srows,       \* the rows of the query run with that context
  call,        \* the statement last run with a context, and its metadata
  res,         \* RowsAffected of the result of the last Exec, -1 if none
  value,       \* the value given to Encoder.Encode
  enc,         \* the Encoder's chunkWriter, <<>> before NewEncoder
  stream,      \* the bytes written to the Encoder's writer, that a Decoder reads
  dec,         \* what Decoder.Decode returned
  epc,         \* position of the Encoder, the Decoder and their caller
  held,        \* the bytes buffered and the length of wire when SetChunkSize was called
  args,        \* the arguments of a statement
  out,         \* what MaybeMap, driverArgsToMap or driverArgsToMap2 returned
  connSize     \* conn.size

vars == <<status, bad, sockClosed, decErr, srv, inbox, rows, op, pc, cpc,
          run, resp, err, fail, ret, opLog, entry, hist, nops,
          faults, vers, sum, srows, call, res,
          value, enc, stream, dec, epc, held, args, out, connSize>>

connVars == <<status, bad, sockClosed>>
callVars == <<run, resp, err, fail>>
sumVars == <<sum, srows, call, res>>
encVars == <<value, enc, stream, dec, epc, held, args, out, connSize>>

\* What the operations on an established connection leave alone when the
\* transport is reliable and metadata is not looked at.
offConn == <<faults, vers, sumVars, encVars>>

(***************************************************************************)
(* Messages.  A response carries the request it answers (rq), the id of    *)
(* the operation that wrote that request (op) and, for a RECORD, its index *)
(* in the stream; for the SUCCESS that ends a stream, the stream's length. *)
(***************************************************************************)
Msg(t, rq, id, n) == [t |-> t, rq |-> rq, op |-> id, n |-> n]

NoMsg == Msg("none", "none", 0, 0)

\* Errors.  UnrecognizedResponseErr carries the response it rejects.
E(e) == [e |-> e, v |-> NoMsg]

Nil == E("nil")

UnrecognizedResponseErr(m) == [e |-> "Unrecognized", v |-> m]

\* The entry of opLog for request rq written by operation id.
Sent(rq, id) == Msg("SEND", rq, id, 0)

RunRequests == {"RUN:BEGIN", "RUN:COMMIT", "RUN:ROLLBACK", "RUN:Q"}

Records(rq, id, n) == [i \in 1..n |-> Msg("RECORD", rq, id, i)]

\* The answers the server may give to request rq of operation id in session
\* state s: a set of [srv: next session state, out: messages written].
ServerAnswers(s, rq, id, maxrec) ==
  IF rq \in {"ACK_FAILURE", "RESET", "INIT"}
  THEN {[srv |-> "READY",  out |-> <<Msg("SUCCESS", rq, id, 0)>>],
        [srv |-> "FAILED", out |-> <<Msg("FAILURE", rq, id, 0)>>]}
  ELSE IF s = "FAILED"
  THEN {[srv |-> "FAILED", out |-> <<Msg("IGNORED", rq, id, 0)>>]}
  ELSE IF rq \in RunRequests
  THEN {[srv |-> "STREAMING", out |-> <<Msg("SUCCESS", rq, id, 0)>>],
        [srv |-> "FAILED",    out |-> <<Msg("FAILURE", rq, id, 0)>>]}
  ELSE IF s = "STREAMING"
  THEN {[srv |-> "READY",
         out |-> Records(rq, id, n) \o <<Msg("SUCCESS", rq, id, n)>>] : n \in 0..maxrec}
       \cup
       {[srv |-> "FAILED",
         out |-> Records(rq, id, n) \o <<Msg("FAILURE", rq, id, n)>>] : n \in 0..maxrec}
  ELSE {[srv |-> "FAILED", out |-> <<Msg("FAILURE", rq, id, 0)>>]}

\* txQuery: the statements of transac; every other statement is "Q".
txQuery == {"BEGIN", "COMMIT", "ROLLBACK"}

TxOps == {"Begin", "Commit", "Rollback"}

(***************************************************************************)
(* The metadata of a SUCCESS, and the Summary made from it (summary.go).   *)
(* A key of the metadata map is a sequence: empty when the map has no such *)
(* key or its value does not have the Go type that parseSuccess asserts,   *)
(* and of length one otherwise.                                            *)
(***************************************************************************)
StatKeys == {"nodes-created", "nodes-deleted",
             "relationships-created", "relationships-deleted"}

\* The stats maps.  0 stands for a key that is absent as well: statsFor
\* yields 0 for both.  Counters has seven more fields, filled the same way
\* from seven more keys; RowsAffected does not read them.
Stats == [StatKeys -> 0..MaxCount]

Opt(S) == {<<>>} \cup {<<x>> : x \in S}

Metadata == [type : Opt({"r", "w"}), stats : Opt(Stats), consumed : Opt(1..MaxMillis)]

NoMetadata == [type |-> <<>>, stats |-> <<>>, consumed |-> <<>>]

\* Counters.parse.
parse(md) ==
  [NodesCreated         |-> md["nodes-created"],
   NodesDeleted         |-> md["nodes-deleted"],
   RelationshipsCreated |-> md["relationships-created"],
   RelationshipsDeleted |-> md["relationships-deleted"]]

\* Counters.RowsAffected.
RowsAffected(c) ==
  c.NodesCreated + c.NodesDeleted + c.RelationshipsCreated + c.RelationshipsDeleted

\* Type.SetString.
SetString(t, str) ==
  CASE str = "r"  -> "Read"
    [] str = "rw" -> "ReadWrite"
    [] str = "w"  -> "Write"
    [] str = "s"  -> "SchemaWrite"
    [] OTHER      -> t

\* The zero Summary: what WithSummary and new(Summary) make.
ZeroSummary ==
  [Type |-> "Read", Counters |-> parse([k \in StatKeys |-> 0]), ConsumedAfter |-> 0]

\* Summary.parseSuccess.
parseSuccess(s, md) ==
  [Type          |-> IF md.type # <<>> THEN SetString(s.Type, md.type[1]) ELSE s.Type,
   Counters      |-> IF md.stats # <<>> THEN parse(md.stats[1]) ELSE s.Counters,
   ConsumedAfter |-> IF md.consumed # <<>> THEN md.consumed[1] ELSE s.ConsumedAfter]

\* The contexts a statement is run with: the one WithSummary returned, or one
\* that carries no Summary.
Contexts == {"summary", "background"}

\* fromContext.
fromContext(ctx) == IF ctx = "summary" THEN sum ELSE ZeroSummary

NoRows == [open |-> FALSE, ctx |-> "background", finished |-> FALSE,
           closed |-> FALSE, md |-> <<>>]

NoCall == [kind |-> "none", ctx |-> "background", step |-> "idle", term |-> NoMetadata]

\* driver.go: the bytes that handshake writes, the magic preamble and four
\* proposed versions.
handshake == <<96, 96, 176, 23,
               0, 0, 0, 1,
               0, 0, 0, 0,
               0, 0, 0, 0,
               0, 0, 0, 0>>

version1_0 == <<0, 0, 0, 1>>

noSupportedVersions == <<0, 0, 0, 0>>

MaxUint16 == 65535

DefaultChunkSize == MaxUint16

Init ==
  /\ status = "idle"
  /\ bad = FALSE
  /\ sockClosed = FALSE
  /\ decErr = FALSE
  /\ srv = "READY"
  /\ inbox = <<>>
  /\ rows = <<>>
  /\ op = [name |-> "none", tx |-> "none", r |-> 0]
  /\ pc = "ready"
  /\ cpc = "none"
  /\ run = NoMsg
  /\ resp = NoMsg
  /\ err = Nil
  /\ fail = NoMsg
  /\ ret = E("none")
  /\ opLog = <<>>
  /\ entry = [status |-> "idle", bad |-> FALSE, log |-> <<>>]
  /\ hist = <<>>
  /\ nops = 0
  /\ faults = 0
  /\ vers = version1_0
  /\ sum = ZeroSummary
  /\ srows = NoRows
  /\ call = NoCall
  /\ res = -1
  /\ value = <<>>
  /\ enc = <<>>
  /\ stream = <<>>
  /\ dec = <<>>
  /\ epc = "off"
  /\ held = <<>>
  /\ args = <<>>
  /\ out = <<>>
  /\ connSize = DefaultChunkSize

----------------------------------------------------------------------------
(* Steps shared by the operations *)

\* A public operation is entered: pc is "ready" and the bound allows it.
Enter(name, tx, r) ==
  /\ pc = "ready"
  /\ nops < MaxOps
  /\ nops' = nops + 1
  /\ op' = [name |-> name, tx |-> tx, r |-> r]
  /\ opLog' = <<>>
  /\ entry' = [status |-> status, bad |-> bad, log |-> opLog]
  /\ hist' = IF nops = 0 THEN hist ELSE Append(hist, [op |-> op, ret |-> ret])

\* The operation returns e to its caller.
Return(e) ==
  /\ pc' = "ready"
  /\ cpc' = "none"
  /\ ret' = e

\* The operation goes on to position p, calling conn.consume if c = "decode".
Goto(p, c) ==
  /\ pc' = p
  /\ cpc' = c
  /\ ret' = E("pending")

\* conn.consume returns (m, e) to the operation.
ConsumeReturns(m, e) ==
  /\ cpc' = "ret"
  /\ resp' = m
  /\ err' = e

\* conn.encode on an open socket: the request is written and the server
\* answers it.
Send(rq, maxrec) ==
  \E a \in ServerAnswers(srv, rq, nops, maxrec) :
    /\ srv' = a.srv
    /\ inbox' = inbox \o a.out
    /\ opLog' = Append(opLog, Sent(rq, nops))

Heads == IF inbox = <<>> THEN {NoMsg} ELSE {Head(inbox), NoMsg}

\* conn.decode returns (m, e).  Once the decoder has failed it returns io.EOF
\* without reading.  On a closed socket the read fails unless the message was
\* already buffered.
ReadMsg(m, e) ==
  \/ /\ decErr
     /\ m = NoMsg /\ e = "io"
     /\ UNCHANGED <<inbox, decErr, opLog>>
  \/ /\ ~decErr
     /\ inbox # <<>>
     /\ m = Head(inbox) /\ e = "nil"
     /\ inbox' = Tail(inbox)
     /\ opLog' = Append(opLog, m)
     /\ UNCHANGED decErr
  \/ /\ ~decErr
     /\ sockClosed
     /\ m = NoMsg /\ e = "io"
     /\ decErr' = TRUE
     /\ UNCHANGED <<inbox, opLog>>

\* conn.Close, had it not assigned statusIdle.
CloseConn_KeepsStatus ==
  IF bad
  THEN UNCHANGED connVars
  ELSE /\ status' = status
       /\ sockClosed' = TRUE
       /\ bad' = TRUE

\* conn.Close called from inside ackFailure and reset.
CloseConn ==
  IF bad
  THEN UNCHANGED connVars
  ELSE /\ status' = "idle"
       /\ sockClosed' = TRUE
       /\ bad' = TRUE

\* The requests op has written, and the messages it has read.
IsSend(m) == m.t = "SEND"
IsRead(m) == m.t # "SEND"
opSent == [i \in 1..Len(SelectSeq(opLog, IsSend)) |-> SelectSeq(opLog, IsSend)[i].rq]
opRead == SelectSeq(opLog, IsRead)

\* checktx, had it tested for statusInTx alone.
checktx_InTxOnly(intx) == (status = "in_tx") = intx

checktx(intx) == (status \in {"in_tx", "in_bad_tx"}) = intx

----------------------------------------------------------------------------
(* conn.consume, conn.ackFailure, conn.reset *)

\* consume, had it returned a FAILURE without calling ackFailure.
ConsumeDecode_NoAck ==
  /\ cpc = "decode"
  /\ \E m \in Heads, e \in {"nil", "io"} :
       /\ ReadMsg(m, e)
       /\ ConsumeReturns(m, E(e))
  /\ UNCHANGED <<connVars, srv, rows, op, pc, run, fail, ret, entry, hist, nops>>
  /\ UNCHANGED offConn

\* consume: resp, err := c.decode(); a FAILURE is acknowledged before it is
\* returned.
ConsumeDecode ==
  /\ cpc = "decode"
  /\ \E m \in Heads, e \in {"nil", "io"} :
       /\ ReadMsg(m, e)
       /\ IF e # "nil"
          THEN ConsumeReturns(m, E(e)) /\ UNCHANGED fail
          ELSE IF m.t = "FAILURE"
          THEN cpc' = "ack" /\ fail' = m /\ UNCHANGED <<resp, err>>
          ELSE ConsumeReturns(m, Nil) /\ UNCHANGED fail
  /\ UNCHANGED <<connVars, srv, rows, op, pc, run, ret, entry, hist, nops>>
  /\ UNCHANGED offConn

\* ackFailure: c.encode(messages.AckFailure{}).
AckSend ==
  /\ cpc = "ack"
  /\ IF sockClosed
     THEN ConsumeReturns(NoMsg, E("io")) /\ UNCHANGED <<srv, inbox, opLog>>
     ELSE Send("ACK_FAILURE", 0) /\ cpc' = "ackDrain" /\ UNCHANGED <<resp, err>>
  /\ UNCHANGED <<connVars, decErr, rows, op, pc, run, fail, ret, entry, hist, nops>>
  /\ UNCHANGED offConn

\* ackFailure, had its loop taken IGNORED for the end of the exchange.
AckDrain_StopsAtIgnored ==
  /\ cpc = "ackDrain"
  /\ \E m \in Heads, e \in {"nil", "io"} :
       /\ ReadMsg(m, e)
       /\ IF e # "nil"
          THEN ConsumeReturns(NoMsg, E(e)) /\ UNCHANGED connVars
          ELSE CASE m.t \in {"IGNORED", "SUCCESS"} ->
                      ConsumeReturns(fail, Nil) /\ UNCHANGED connVars
                 [] m.t = "FAILURE" -> cpc' = "reset" /\ UNCHANGED <<resp, err, connVars>>
                 [] OTHER -> ConsumeReturns(NoMsg, UnrecognizedResponseErr(m)) /\ CloseConn
  /\ UNCHANGED <<srv, rows, op, pc, run, fail, ret, entry, hist, nops>>
  /\ UNCHANGED offConn

\* ackFailure: one turn of the loop that reads until SUCCESS or FAILURE.
AckDrain ==
  /\ cpc = "ackDrain"
  /\ \E m \in Heads, e \in {"nil", "io"} :
       /\ ReadMsg(m, e)
       /\ IF e # "nil"
          THEN ConsumeReturns(NoMsg, E(e)) /\ UNCHANGED connVars
          ELSE CASE m.t = "IGNORED" -> UNCHANGED <<cpc, resp, err, connVars>>
                 [] m.t = "SUCCESS" -> ConsumeReturns(fail, Nil) /\ UNCHANGED connVars
                 [] m.t = "FAILURE" -> cpc' = "reset" /\ UNCHANGED <<resp, err, connVars>>
                 [] OTHER -> ConsumeReturns(NoMsg, UnrecognizedResponseErr(m)) /\ CloseConn
  /\ UNCHANGED <<srv, rows, op, pc, run, fail, ret, entry, hist, nops>>
  /\ UNCHANGED offConn

\* reset: c.encode(messages.Reset{}).
ResetSend ==
  /\ cpc = "reset"
  /\ IF sockClosed
     THEN ConsumeReturns(NoMsg, E("io")) /\ UNCHANGED <<srv, inbox, opLog>>
     ELSE Send("RESET", 0) /\ cpc' = "resetDrain" /\ UNCHANGED <<resp, err>>
  /\ UNCHANGED <<connVars, decErr, rows, op, pc, run, fail, ret, entry, hist, nops>>
  /\ UNCHANGED offConn

\* reset: one turn of the loop that reads until SUCCESS or FAILURE.
ResetDrain ==
  /\ cpc = "resetDrain"
  /\ \E m \in Heads, e \in {"nil", "io"} :
       /\ ReadMsg(m, e)
       /\ IF e # "nil"
          THEN ConsumeReturns(NoMsg, E(e)) /\ UNCHANGED connVars
          ELSE CASE m.t = "IGNORED" -> UNCHANGED <<cpc, resp, err, connVars>>
                 [] m.t = "SUCCESS" -> ConsumeReturns(fail, Nil) /\ UNCHANGED connVars
                 [] m.t = "FAILURE" -> ConsumeReturns(NoMsg, E("ResetFailed")) /\ UNCHANGED connVars
                 [] OTHER -> ConsumeReturns(NoMsg, UnrecognizedResponseErr(m)) /\ CloseConn
  /\ UNCHANGED <<srv, rows, op, pc, run, fail, ret, entry, hist, nops>>
  /\ UNCHANGED offConn

----------------------------------------------------------------------------
(* conn.run and conn.pullAll, as called from sendRunPullAll *)

\* sendRunPullAll: c.run(query, args).
SendRun ==
  /\ pc = "run"
  /\ IF sockClosed
     THEN Return(E("io")) /\ UNCHANGED <<srv, inbox, opLog>>
     ELSE /\ Send("RUN:" \o (IF op.tx \in txQuery THEN op.tx ELSE "Q"), 0)
          /\ Goto("pull", "none")
  /\ UNCHANGED <<connVars, decErr, rows, op, callVars, entry, hist, nops>>
  /\ UNCHANGED offConn

\* sendRunPullAll: c.pullAll(); its callers then call c.consume.
SendPullAll ==
  /\ pc = "pull"
  /\ IF sockClosed
     THEN Return(E("io")) /\ UNCHANGED <<srv, inbox, opLog>>
     ELSE /\ Send("PULL_ALL", IF op.tx \in txQuery THEN 0 ELSE MaxRecords)
          /\ Goto("hdr", "decode")
  /\ UNCHANGED <<connVars, decErr, rows, op, callVars, entry, hist, nops>>
  /\ UNCHANGED offConn

----------------------------------------------------------------------------
(* Transactions: conn.begin, conn.Commit, conn.Rollback, conn.transac *)

\* begin, up to the call of transac(begin).
Begin ==
  /\ Enter("Begin", "BEGIN", 0)
  /\ IF bad
     THEN Return(E("ErrBadConn")) /\ UNCHANGED bad
     ELSE IF ~checktx(FALSE)
     THEN bad' = TRUE /\ Return(E("TxState"))
     ELSE Goto("run", "none") /\ UNCHANGED bad
  /\ UNCHANGED <<status, sockClosed, decErr, srv, inbox, rows, callVars>>
  /\ UNCHANGED offConn

\* Commit, had it no branch for statusInBadTx.
Commit_NoBadTxBranch ==
  /\ Enter("Commit", "COMMIT", 0)
  /\ IF bad
     THEN Return(E("ErrBadConn")) /\ UNCHANGED bad
     ELSE IF ~checktx(TRUE)
     THEN bad' = TRUE /\ Return(E("TxState"))
     ELSE Goto("run", "none") /\ UNCHANGED bad
  /\ UNCHANGED <<status, sockClosed, decErr, srv, inbox, rows, callVars>>
  /\ UNCHANGED offConn

\* Commit, up to the call of transac(commit), or of Rollback when the
\* transaction has failed.
Commit ==
  /\ Enter("Commit", IF status = "in_bad_tx" THEN "ROLLBACK" ELSE "COMMIT", 0)
  /\ IF bad
     THEN Return(E("ErrBadConn")) /\ UNCHANGED bad
     ELSE IF ~checktx(TRUE)
     THEN bad' = TRUE /\ Return(E("TxState"))
     ELSE Goto("run", "none") /\ UNCHANGED bad
  /\ UNCHANGED <<status, sockClosed, decErr, srv, inbox, rows, callVars>>
  /\ UNCHANGED offConn

\* Rollback, up to the call of transac(rollback).
Rollback ==
  /\ Enter("Rollback", "ROLLBACK", 0)
  /\ IF bad
     THEN Return(E("ErrBadConn")) /\ UNCHANGED bad
     ELSE IF ~checktx(TRUE)
     THEN bad' = TRUE /\ Return(E("TxState"))
     ELSE Goto("run", "none") /\ UNCHANGED bad
  /\ UNCHANGED <<status, sockClosed, decErr, srv, inbox, rows, callVars>>
  /\ UNCHANGED offConn

\* sendRunPullAllConsumeSingle after its first consume.
TransacHdr ==
  /\ pc = "hdr" /\ cpc = "ret" /\ op.name \in TxOps
  /\ IF err # Nil
     THEN Return(err) /\ UNCHANGED run
     ELSE run' = resp /\ Goto("term", "decode")
  /\ UNCHANGED <<connVars, decErr, srv, inbox, rows, op, resp, err, fail,
                 opLog, entry, hist, nops>>
  /\ UNCHANGED offConn

\* AfterTransac, had Rollback not assigned statusIdle.
AfterTransac_RollbackKeepsStatus(name, tx) ==
  CASE name = "Begin"    -> [status |-> "in_tx", ret |-> Nil]
    [] name = "Commit" /\ tx = "ROLLBACK"
                         -> [status |-> status, ret |-> E("ErrInFailedTransaction")]
    [] OTHER             -> [status |-> status, ret |-> Nil]

\* The status an operation sets once its transac has returned nil, and the
\* error it then returns.
AfterTransac(name, tx) ==
  CASE name = "Begin"    -> [status |-> "in_tx", ret |-> Nil]
    [] name = "Rollback" -> [status |-> "idle", ret |-> Nil]
    [] name = "Commit" /\ tx = "ROLLBACK"
                         -> [status |-> "idle", ret |-> E("ErrInFailedTransaction")]
    [] OTHER             -> [status |-> status, ret |-> Nil]

\* sendRunPullAllConsumeSingle after its second consume, the rest of transac
\* and the rest of the operation that called it.
TransacTerm ==
  /\ pc = "term" /\ cpc = "ret"
  /\ IF err # Nil
     THEN Return(err) /\ UNCHANGED status
     ELSE IF run.t # "SUCCESS"
     THEN Return(UnrecognizedResponseErr(run)) /\ UNCHANGED status
     ELSE IF resp.t # "SUCCESS"
     THEN status' = "in_bad_tx" /\ Return(UnrecognizedResponseErr(resp))
     ELSE /\ status' = AfterTransac(op.name, op.tx).status
          /\ Return(AfterTransac(op.name, op.tx).ret)
  /\ UNCHANGED <<bad, sockClosed, decErr, srv, inbox, rows, op, callVars,
                 opLog, entry, hist, nops>>
  /\ UNCHANGED offConn

----------------------------------------------------------------------------
(* conn.query, conn.exec, stmt.runquery, stmt.exec, stmt.pull *)

\* query, up to the writes of stmt.pull.
Query ==
  /\ Enter("Query", "none", 0)
  /\ IF bad THEN Return(E("ErrBadConn")) ELSE Goto("run", "none")
  /\ UNCHANGED <<connVars, decErr, srv, inbox, rows, callVars>>
  /\ UNCHANGED offConn

\* exec, up to the writes of stmt.pull.
Exec ==
  /\ Enter("Exec", "none", 0)
  /\ IF bad THEN Return(E("ErrBadConn")) ELSE Goto("run", "none")
  /\ UNCHANGED <<connVars, decErr, srv, inbox, rows, callVars>>
  /\ UNCHANGED offConn

NewRows(q) == [q |-> q, closed |-> FALSE, finished |-> FALSE, got |-> 0]

\* stmt.pull after sendRunPullAllConsumeRun, and the return of runquery or
\* the first consumeAll of exec.
PullHdr ==
  /\ pc = "hdr" /\ cpc = "ret" /\ op.name \in {"Query", "Exec"}
  /\ IF err # Nil
     THEN Return(err) /\ UNCHANGED rows
     ELSE IF resp.t # "SUCCESS"
     THEN Return(UnrecognizedResponseErr(resp)) /\ UNCHANGED rows
     ELSE IF op.name = "Query"
     THEN rows' = Append(rows, NewRows(nops)) /\ Return(Nil)
     ELSE Goto("all", "decode") /\ UNCHANGED rows
  /\ UNCHANGED <<connVars, decErr, srv, inbox, op, callVars, opLog, entry, hist, nops>>
  /\ UNCHANGED offConn

\* consumeAll: one turn of its loop, and the return of exec.
ExecAll ==
  /\ pc = "all" /\ cpc = "ret"
  /\ IF err # Nil
     THEN Return(err)
     ELSE IF resp.t = "SUCCESS"
     THEN Return(Nil)
     ELSE Goto("all", "decode")
  /\ UNCHANGED <<connVars, decErr, srv, inbox, rows, op, callVars, opLog, entry, hist, nops>>
  /\ UNCHANGED offConn

----------------------------------------------------------------------------
(* rows.Next, rows.Close, Decoder.Discard, conn.Close *)

\* Next, had it not tested r.closed.
Next_NoClosedCheck(r) ==
  /\ Enter("Next", "none", r)
  /\ Goto("next", "decode")
  /\ UNCHANGED <<connVars, decErr, srv, inbox, rows, callVars>>
  /\ UNCHANGED offConn

\* Next, up to its call of consume.
Next_(r) ==
  /\ Enter("Next", "none", r)
  /\ IF rows[r].closed THEN Return(E("ErrRowsClosed")) ELSE Goto("next", "decode")
  /\ UNCHANGED <<connVars, decErr, srv, inbox, rows, callVars>>
  /\ UNCHANGED offConn

\* Next after consume.
NextRet ==
  /\ pc = "next" /\ cpc = "ret"
  /\ IF err # Nil
     THEN Return(err) /\ UNCHANGED rows
     ELSE CASE resp.t = "SUCCESS" ->
                 /\ rows' = [rows EXCEPT ![op.r].finished = TRUE]
                 /\ Return(E("EOF"))
            [] resp.t = "RECORD" ->
                 /\ rows' = [rows EXCEPT ![op.r].got = @ + 1]
                 /\ Return(Nil)
            [] OTHER -> Return(UnrecognizedResponseErr(resp)) /\ UNCHANGED rows
  /\ UNCHANGED <<connVars, decErr, srv, inbox, op, callVars, opLog, entry, hist, nops>>
  /\ UNCHANGED offConn

\* rows.Close, had it answered a second Close as Next answers closed rows.
RowsClose_ErrWhenClosed(r) ==
  /\ Enter("RowsClose", "none", r)
  /\ IF rows[r].closed
     THEN Return(E("ErrRowsClosed")) /\ UNCHANGED rows
     ELSE IF rows[r].finished
     THEN rows' = [rows EXCEPT ![r].closed = TRUE] /\ Return(Nil)
     ELSE Goto("discard", "none") /\ UNCHANGED rows
  /\ UNCHANGED <<connVars, decErr, srv, inbox, callVars>>
  /\ UNCHANGED offConn

\* rows.Close, up to its call of Discard.
RowsClose(r) ==
  /\ Enter("RowsClose", "none", r)
  /\ IF rows[r].closed
     THEN Return(Nil) /\ UNCHANGED rows
     ELSE IF rows[r].finished
     THEN rows' = [rows EXCEPT ![r].closed = TRUE] /\ Return(Nil)
     ELSE Goto("discard", "none") /\ UNCHANGED rows
  /\ UNCHANGED <<connVars, decErr, srv, inbox, callVars>>
  /\ UNCHANGED offConn

\* The number of messages at the front of box that Discard reads: it copies
\* from the chunk reader until the reader reports io.EOF, which it does at
\* the first zero-length chunk, the end of one message.
Discarded(box) == 1

\* Decoder.Discard and the rest of rows.Close.
Discard ==
  /\ pc = "discard"
  /\ \/ /\ inbox # <<>>
        /\ inbox' = SubSeq(inbox, Discarded(inbox) + 1, Len(inbox))
        /\ opLog' = opLog \o SubSeq(inbox, 1, Discarded(inbox))
        /\ rows' = [rows EXCEPT ![op.r].finished = TRUE, ![op.r].closed = TRUE]
        /\ Return(Nil)
     \/ /\ sockClosed
        /\ Return(E("io"))
        /\ UNCHANGED <<inbox, opLog, rows>>
  /\ UNCHANGED <<connVars, decErr, srv, op, callVars, entry, hist, nops>>
  /\ UNCHANGED offConn

\* conn.Close.
Close ==
  /\ Enter("Close", "none", 0)
  /\ IF bad THEN Return(E("ErrBadConn")) ELSE Return(Nil)
  /\ CloseConn
  /\ UNCHANGED <<decErr, srv, inbox, rows, callVars>>
  /\ UNCHANGED offConn

----------------------------------------------------------------------------

Next ==
  \/ Begin
  \/ Commit
  \/ Rollback
  \/ Query
  \/ Exec
  \/ Close
  \/ \E r \in 1..Len(rows) : Next_(r)
  \/ \E r \in 1..Len(rows) : RowsClose(r)
  \/ SendRun
  \/ SendPullAll
  \/ ConsumeDecode
  \/ AckSend
  \/ AckDrain
  \/ ResetSend
  \/ ResetDrain
  \/ TransacHdr
  \/ TransacTerm
  \/ PullHdr
  \/ ExecAll
  \/ NextRet
  \/ Discard

Spec == Init /\ [][Next]_vars

\* The client is reading and nothing will ever arrive.
Hung ==
  /\ \/ cpc \in {"decode", "ackDrain", "resetDrain"}
     \/ pc = "discard"
  /\ inbox = <<>>
  /\ ~sockClosed /\ ~decErr

TypeOK ==
  /\ status \in {"idle", "in_tx", "in_bad_tx"}
  /\ bad \in BOOLEAN /\ sockClosed \in BOOLEAN /\ decErr \in BOOLEAN
  /\ srv \in {"READY", "STREAMING", "FAILED"}
  /\ nops \in 0..MaxOps
  /\ pc \in {"ready", "run", "pull", "hdr", "term", "all", "next", "discard",
            "dial", "init", "initResp", "failed"}
  /\ cpc \in {"none", "decode", "ack", "ackDrain", "reset", "resetDrain", "ret"}
  /\ faults \in 0..MaxFaults
  /\ res \in -1..(4 * MaxCount)
  /\ vers = <<>> \/ vers \in [1..4 -> 0..MaxByte]

----------------------------------------------------------------------------
(* Vocabulary of the claims *)

Range(f) == {f[i] : i \in DOMAIN f}

\* op has returned to its caller.
Returned == pc = "ready" /\ nops > 0

\* The messages of query q that nobody has read.
Unread(q) == SelectSeq(inbox, LAMBDA m : m.op = q)

\* The terminal SUCCESS of the stream of query q, streamed after n records.
StreamEnd(q, n) == Msg("SUCCESS", "PULL_ALL", q, n)

----------------------------------------------------------------------------
(* C1 *)

\* C1: when rows.Close returns nil for rows whose query streamed N >= 1
\* RECORDs followed by SUCCESS, and that SUCCESS had not been read when Close
\* was called, no message of that query is left unread: the connection is
\* message-aligned for the next RUN + PULL_ALL.
\* The code does not do this: Decoder.Discard stops at the first end of
\* message.
C1_PartialDiscardAligned ==
  (/\ Returned /\ op.name = "RowsClose" /\ ret = Nil
   /\ \E n \in 1..MaxRecords :
        StreamEnd(rows[op.r].q, n) \in Range(opRead) \cup Range(inbox))
  => Unread(rows[op.r].q) = <<>>

----------------------------------------------------------------------------
(* C2 *)

\* C2: when Commit returns nil, having run COMMIT in a transaction that
\* Begin opened, the status is idle.
\* The code does not do this: Commit returns transac(commit) and never
\* assigns status.
C2_CommitRestoresIdle ==
  (Returned /\ op.name = "Commit" /\ op.tx = "COMMIT" /\ ret = Nil)
  => status = "idle"

----------------------------------------------------------------------------
(* C3 *)

\* A FAILURE that answers a RUN or PULL_ALL of op itself is among the
\* messages op has read.
ReadOwnFailure ==
  \E i \in 1..Len(opRead) :
    /\ opRead[i].t = "FAILURE"
    /\ opRead[i].op = nops
    /\ opRead[i].rq \in {"RUN:Q", "PULL_ALL"}

\* C3: when a Query or Exec that was called with status in_tx returns after
\* the server answered its RUN or PULL_ALL with FAILURE, the status is
\* in_bad_tx.
\* The code does not do this: stmt.pull and stmt.exec never assign status.
C3_FailedRunMarksBadTx ==
  (/\ Returned /\ op.name \in {"Query", "Exec"}
   /\ entry.status = "in_tx" /\ ~entry.bad
   /\ ReadOwnFailure)
  => status = "in_bad_tx"

----------------------------------------------------------------------------
(* C4 *)

\* op read exactly two messages and both were SUCCESS: the RUN and the
\* PULL_ALL of a transaction statement both succeeded.
BothSuccess ==
  /\ Len(opRead) = 2
  /\ opRead[1].t = "SUCCESS"
  /\ opRead[2].t = "SUCCESS"

AckRequests == {"ACK_FAILURE", "RESET"}

\* The requests of s other than the acknowledgements of failures.
Requests(s) == SelectSeq(s, LAMBDA x : x \notin AckRequests)

CommitInBadTx == op.name = "Commit" /\ entry.status = "in_bad_tx" /\ ~entry.bad

\* C4: a Commit called with status in_bad_tx (on a connection that is not
\* bad) writes RUN "ROLLBACK" + PULL_ALL and never RUN "COMMIT"; when it has
\* returned, then either both were answered SUCCESS, the status is idle and
\* it returned ErrInFailedTransaction, or the rollback failed and it returned
\* the rollback's error.
C4_CommitInBadTxRollsBack ==
  CommitInBadTx =>
    /\ "RUN:COMMIT" \notin Range(opSent)
    /\ Requests(opSent) \in {<<>>, <<"RUN:ROLLBACK">>, <<"RUN:ROLLBACK", "PULL_ALL">>}
    /\ Returned =>
         /\ Requests(opSent) = <<"RUN:ROLLBACK", "PULL_ALL">>
         /\ BothSuccess => (status = "idle" /\ ret = E("ErrInFailedTransaction"))
         /\ ~BothSuccess => ret.e \in {"Unrecognized", "ResetFailed", "io"}

C4_Witness ==
  /\ Returned /\ CommitInBadTx /\ BothSuccess
  /\ status = "idle" /\ ret = E("ErrInFailedTransaction")

----------------------------------------------------------------------------
(* C5 *)

BeginOnIdle == op.name = "Begin" /\ entry.status = "idle" /\ ~entry.bad

RollbackInTx == op.name = "Rollback" /\ entry.status = "in_tx" /\ ~entry.bad

\* C5: when a Begin called with status idle on a connection that is not bad
\* has returned, the statement it ran was RUN "BEGIN" + PULL_ALL; if both
\* were answered SUCCESS it wrote nothing else, the status is in_tx and it
\* returned nil.  The same for a Rollback called with status in_tx, with
\* RUN "ROLLBACK" and status idle.
C5_BeginRollbackTransitions ==
  /\ (Returned /\ BeginOnIdle) =>
       /\ Requests(opSent) = <<"RUN:BEGIN", "PULL_ALL">>
       /\ BothSuccess => /\ opSent = <<"RUN:BEGIN", "PULL_ALL">>
                         /\ status = "in_tx" /\ ret = Nil
  /\ (Returned /\ RollbackInTx) =>
       /\ Requests(opSent) = <<"RUN:ROLLBACK", "PULL_ALL">>
       /\ BothSuccess => /\ opSent = <<"RUN:ROLLBACK", "PULL_ALL">>
                         /\ status = "idle" /\ ret = Nil

C5_Witness ==
  /\ Returned /\ RollbackInTx /\ BothSuccess
  /\ status = "idle"
  /\ hist[Len(hist)] = [op |-> [name |-> "Begin", tx |-> "BEGIN", r |-> 0], ret |-> Nil]

----------------------------------------------------------------------------
(* C6 *)

\* The operation before op was a Commit that ran COMMIT and returned nil,
\* and the one before that a Begin that returned nil.
AfterBeginCommit ==
  /\ Len(hist) >= 2
  /\ hist[Len(hist)] = [op |-> [name |-> "Commit", tx |-> "COMMIT", r |-> 0], ret |-> Nil]
  /\ hist[Len(hist) - 1] = [op |-> [name |-> "Begin", tx |-> "BEGIN", r |-> 0], ret |-> Nil]

\* C6: a Commit that directly follows a successful Begin and a successful
\* Commit returns an error and leaves bad = true.
\* The code does not do this: the first Commit left the status in_tx (C2), so
\* the second passes checktx and runs COMMIT again.
C6_DoubleCommitPoisons ==
  (Returned /\ op.name = "Commit" /\ AfterBeginCommit)
  => (ret # Nil /\ bad)

----------------------------------------------------------------------------
(* C7 *)

\* op was called with a status that its checktx rejects.
WrongTxStatus ==
  \/ op.name = "Begin" /\ entry.status \in {"in_tx", "in_bad_tx"}
  \/ op.name \in {"Commit", "Rollback"} /\ entry.status = "idle"

\* C7: a Begin called with status in_tx or in_bad_tx, and a Commit or
\* Rollback called with status idle, returns an error at once: bad is true,
\* the status is what it was, and nothing was written or read.
C7_TxStatusGuard ==
  WrongTxStatus =>
    /\ Returned
    /\ ret \in {E("TxState"), E("ErrBadConn")}
    /\ ~entry.bad => ret = E("TxState")
    /\ bad
    /\ status = entry.status
    /\ opLog = <<>>

C7_Witness ==
  /\ WrongTxStatus /\ op.name = "Begin" /\ entry.status = "in_bad_tx"
  /\ ~entry.bad /\ bad /\ ret = E("TxState")

----------------------------------------------------------------------------
(* C8 *)

\* What a Query, operation id, writes and reads when its RUN is answered
\* FAILURE, its PULL_ALL IGNORED and its ACK_FAILURE SUCCESS.
RecoveryLog(id) ==
  << Sent("RUN:Q", id), Sent("PULL_ALL", id), Msg("FAILURE", "RUN:Q", id, 0),
     Sent("ACK_FAILURE", id),
     Msg("IGNORED", "PULL_ALL", id, 0), Msg("SUCCESS", "ACK_FAILURE", id, 0) >>

\* op is a Query, the first message it read is the FAILURE of its own RUN,
\* and the server has not answered its ACK_FAILURE with FAILURE.
RunFailed ==
  /\ op.name = "Query"
  /\ Len(opRead) >= 1
  /\ opRead[1] = Msg("FAILURE", "RUN:Q", nops, 0)
  /\ Msg("FAILURE", "ACK_FAILURE", nops, 0) \notin Range(opRead)

\* Operation k was a Query that returned the FAILURE of its own RUN.
Recovered(k) ==
  /\ k \in 1..Len(hist)
  /\ hist[k] = [op |-> [name |-> "Query", tx |-> "none", r |-> 0],
                ret |-> UnrecognizedResponseErr(Msg("FAILURE", "RUN:Q", k, 0))]

\* Since the Query that made rows r, every operation that returned was a
\* Next on r that delivered a row.
OnlyNextSince(r) ==
  \A k \in (rows[r].q + 1)..Len(hist) :
    hist[k] = [op |-> [name |-> "Next", tx |-> "none", r |-> r], ret |-> Nil]

\* The stream of query q as the server wrote it: n RECORDs and the terminal.
IsStream(box, q) ==
  /\ box # <<>>
  /\ \A i \in 1..(Len(box) - 1) : box[i] = Msg("RECORD", "PULL_ALL", q, i)
  /\ box[Len(box)] \in {Msg(t, "PULL_ALL", q, Len(box) - 1) : t \in {"SUCCESS", "FAILURE"}}

\* C8: (a) a Query whose RUN is answered FAILURE, its PULL_ALL IGNORED and its
\* ACK_FAILURE SUCCESS never waits for a message that does not come, and when
\* it has returned it returned an error, it wrote exactly RUN, PULL_ALL and
\* one ACK_FAILURE, it read the FAILURE, the IGNORED and the SUCCESS, the
\* connection is not bad and nothing is left unread; (b) a Query that
\* directly follows and whose RUN is answered SUCCESS returns nil having read
\* that SUCCESS alone, and what is left unread is its own stream; (c) when
\* that stream ends with SUCCESS, the Nexts that then iterate over its rows
\* read that stream only: the RECORDs in order, then the terminal SUCCESS.
C8_FailureRecovery ==
  /\ RunFailed =>
       /\ ~Hung
       /\ Returned =>
            /\ opLog = RecoveryLog(nops)
            /\ ret = UnrecognizedResponseErr(Msg("FAILURE", "RUN:Q", nops, 0))
            /\ ~bad
            /\ inbox = <<>>
  /\ (/\ Returned /\ op.name = "Query" /\ Recovered(nops - 1)
      /\ Msg("SUCCESS", "RUN:Q", nops, 0) \in Range(opRead) \cup Range(inbox)) =>
       /\ ret = Nil
       /\ opRead = <<Msg("SUCCESS", "RUN:Q", nops, 0)>>
       /\ rows # <<>> /\ rows[Len(rows)] = NewRows(nops)
       /\ IsStream(inbox, nops)
  /\ (/\ op.name = "Next" /\ Recovered(rows[op.r].q - 1) /\ OnlyNextSince(op.r)
      /\ \E n \in 0..MaxRecords :
           StreamEnd(rows[op.r].q, n) \in Range(opRead) \cup Range(inbox)) =>
       /\ ~Hung
       /\ \A i \in 1..Len(opRead) : opRead[i].op = rows[op.r].q /\ opRead[i].rq = "PULL_ALL"
       /\ (Returned /\ ret = Nil) =>
            opRead = <<Msg("RECORD", "PULL_ALL", rows[op.r].q, rows[op.r].got)>>
       /\ (Returned /\ ret = E("EOF")) =>
            /\ opRead = <<StreamEnd(rows[op.r].q, rows[op.r].got)>>
            /\ inbox = <<>>

C8_Witness ==
  /\ Returned /\ op.name = "Next" /\ ret = E("EOF")
  /\ Recovered(rows[op.r].q - 1) /\ OnlyNextSince(op.r)
  /\ entry.log = <<Msg("RECORD", "PULL_ALL", rows[op.r].q, 1)>>
  /\ rows[op.r].got = 1 /\ rows[op.r].finished
  /\ ~bad

----------------------------------------------------------------------------
(* C9 *)

\* The place in opLog of the last request written before place i, or 0.
LastSendBefore(i) ==
  IF \E j \in 1..(i - 1) : IsSend(opLog[j])
  THEN CHOOSE j \in 1..(i - 1) :
         IsSend(opLog[j]) /\ \A k \in (j + 1)..(i - 1) : ~IsSend(opLog[k])
  ELSE 0

\* The message at place i of opLog was read while draining after request rq:
\* rq is the last request written before it, and only IGNOREDs were read in
\* between.
Draining(rq, i) ==
  LET j == LastSendBefore(i) IN
    /\ j > 0
    /\ opLog[j].rq = rq
    /\ \A k \in (j + 1)..(i - 1) : opLog[k].t = "IGNORED"

\* The FAILURE that the acknowledgement written last before place i answers.
Acknowledged(i) ==
  LET j == LastSendBefore(i) IN
    IF opLog[j].rq = "ACK_FAILURE"
    THEN opLog[j - 1]
    ELSE opLog[LastSendBefore(j - 1) - 1]

\* C9: in the log of every operation, (1) ACK_FAILURE is written only
\* directly after a FAILURE that was not read while draining, and RESET only
\* directly after a FAILURE read while draining after ACK_FAILURE; (2) a
\* FAILURE read outside a drain is followed by ACK_FAILURE and by nothing
\* else before the next read, one read while draining after ACK_FAILURE by
\* RESET (on a closed socket the write fails and the operation ends); (3) an IGNORED read while draining does not end consume; (4) a
\* SUCCESS read while draining ends consume, which returns the FAILURE it
\* first read and no error.
C9_ConsumeDiscipline ==
  \A i \in 1..Len(opLog) :
    LET m == opLog[i]
        draining == Draining("ACK_FAILURE", i) \/ Draining("RESET", i)
        last == (i = Len(opLog))
    IN
    /\ (IsSend(m) /\ m.rq = "ACK_FAILURE") =>
         (i > 1 /\ opLog[i - 1].t = "FAILURE"
                /\ ~Draining("ACK_FAILURE", i - 1) /\ ~Draining("RESET", i - 1))
    /\ (IsSend(m) /\ m.rq = "RESET") =>
         (i > 1 /\ opLog[i - 1].t = "FAILURE" /\ Draining("ACK_FAILURE", i - 1))
    /\ (m.t = "FAILURE" /\ ~draining /\ op.name # "RowsClose") =>
         IF last THEN cpc = "ack" \/ sockClosed
         ELSE /\ opLog[i + 1] = Sent("ACK_FAILURE", nops)
              /\ (i + 2 <= Len(opLog) => IsRead(opLog[i + 2]))
    /\ (m.t = "FAILURE" /\ Draining("ACK_FAILURE", i)) =>
         IF last THEN cpc = "reset" \/ sockClosed
         ELSE /\ opLog[i + 1] = Sent("RESET", nops)
              /\ (i + 2 <= Len(opLog) => IsRead(opLog[i + 2]))
    /\ (m.t = "IGNORED" /\ draining /\ last) =>
         cpc \in {"ackDrain", "resetDrain"}
    /\ (m.t = "SUCCESS" /\ draining /\ last /\ cpc = "ret") =>
         (err = Nil /\ resp = Acknowledged(i) /\ resp.t = "FAILURE")

C9_Witness ==
  /\ cpc = "ret" /\ err = Nil /\ resp.t = "FAILURE"
  /\ Len(opLog) >= 6
  /\ opLog[Len(opLog)] = Msg("SUCCESS", "RESET", nops, 0)
  /\ Draining("RESET", Len(opLog))
  /\ \E i \in 1..Len(opLog) : opLog[i].t = "IGNORED" /\ Draining("ACK_FAILURE", i)

----------------------------------------------------------------------------
(* C10 *)

\* No rows are open: every rows object was read to its end or closed.
NoOpenRows == \A r \in 1..Len(rows) : rows[r].finished \/ rows[r].closed

\* C10: when an operation has returned and no rows are open, every response
\* the server wrote has been read: nothing is left in the connection.
\* The code does not do this: rows.Close leaves the rest of the stream (C1).
C10_Aligned ==
  (Returned /\ NoOpenRows) => inbox = <<>>

----------------------------------------------------------------------------
(* C11 *)

\* The operations that C11 names and the model has.
FailFastOps == {"Query", "Exec", "Begin", "Commit", "Rollback", "Close", "Next"}

\* C11: an operation called while bad is true returns ErrBadConn at once,
\* having written and read nothing, and the status is what it was.
\* The code does not do this for rows.Next: Next tests r.closed alone and then
\* calls consume, which reads from the connection (stmt.exec and
\* stmt.runquery test s.closed alone in the same way).
C11_BadFailsFast ==
  (entry.bad /\ op.name \in FailFastOps) =>
    /\ Returned
    /\ ret = E("ErrBadConn")
    /\ opLog = <<>>
    /\ status = entry.status

----------------------------------------------------------------------------
(* The connection over a transport that can fail *)

\* conn.decode returns an error that is not the decoder's remembered one: the
\* read from the socket failed, a chunk was longer than the input that was
\* left, the message did not end with 00 00, or the PackStream value could not
\* be decoded.  Decoder.Decode remembers the error in lastErr; consume,
\* ackFailure and reset return it to their caller.
DecodeFails ==
  /\ cpc \in {"decode", "ackDrain", "resetDrain"}
  /\ ~decErr
  /\ faults < MaxFaults
  /\ faults' = faults + 1
  /\ decErr' = TRUE
  /\ ConsumeReturns(NoMsg, E("io"))
  /\ UNCHANGED <<connVars, srv, inbox, rows, op, pc, run, fail, ret, opLog,
                 entry, hist, nops, vers, sumVars, encVars>>

\* conn.encode returns an error: the write to the socket failed.  run and
\* pullAll return it to the operation, ackFailure and reset to consume.
EncodeFails ==
  /\ \/ pc \in {"run", "pull"}
     \/ cpc \in {"ack", "reset"}
  /\ faults < MaxFaults
  /\ faults' = faults + 1
  /\ IF cpc \in {"ack", "reset"}
     THEN ConsumeReturns(NoMsg, E("io")) /\ UNCHANGED <<pc, ret>>
     ELSE Return(E("io")) /\ UNCHANGED <<resp, err>>
  /\ UNCHANGED <<connVars, decErr, srv, inbox, rows, op, run, fail, opLog,
                 entry, hist, nops, vers, sumVars, encVars>>

NextNet ==
  \/ Next
  \/ DecodeFails
  \/ EncodeFails

SpecNet == Init /\ [][NextNet]_vars

----------------------------------------------------------------------------
(* C12 *)

\* C12: when an operation has returned the error of a failed read, write or
\* decode, bad is true.
\* The code does not do this: bad is assigned in checktx and in Close alone;
\* decode and encode return the error and leave bad as it was, so the next
\* operation passes its test of bad and writes to the socket.
C12_IoErrorPoisons ==
  (Returned /\ ret = E("io")) => bad

----------------------------------------------------------------------------
(* C13 *)

\* op returned UnrecognizedResponseErr for a message that is not expected
\* where it was read: in rows.Next a message that is neither RECORD nor
\* SUCCESS, and elsewhere, with no rows left open, an IGNORED or a RECORD.
UnexpectedResponse ==
  /\ Returned
  /\ ret.e = "Unrecognized"
  /\ \/ op.name = "Next"
     \/ ret.v.t \in {"IGNORED", "RECORD"} /\ NoOpenRows

\* C13: when an operation has returned UnrecognizedResponseErr for an
\* unexpected message, bad is true.
\* The code does not do this: rows.Next, stmt.pull and transac return the
\* error and leave bad as it was; Close is called for an unexpected message
\* in the loops of ackFailure and reset alone.
C13_UnrecognizedPoisons ==
  UnexpectedResponse => bad

----------------------------------------------------------------------------
(* C14 *)

\* C14: when an operation has returned because the server answered RESET
\* with FAILURE, bad is true and the socket is closed.
\* The code does not do this: reset returns the error for a FAILURE without
\* calling Close, so the next operation writes its requests to a server that
\* ignores them.
C14_ResetFailureFatal ==
  (Returned /\ ret = E("ResetFailed")) => (bad /\ sockClosed)

----------------------------------------------------------------------------
(* C15 *)

\* The step in which operation name is called on rows that are closed.
CalledOnClosed(name) ==
  /\ pc = "ready"
  /\ nops' = nops + 1
  /\ op'.name = name
  /\ rows[op'.r].closed

\* The step leaves the connection and the rows as they are: nothing is read
\* or written.
Untouched ==
  /\ opLog' = <<>>
  /\ UNCHANGED <<connVars, decErr, srv, inbox, rows>>

\* C15: when rows.Close has returned nil the rows are closed; and a Close
\* called on closed rows returns nil at once, reads nothing and changes
\* neither the rows nor the connection.
C15_CloseIdempotent ==
  [][ /\ (Returned /\ op.name = "RowsClose" /\ ret = Nil)' => rows'[op'.r].closed
      /\ CalledOnClosed("RowsClose") => (Returned' /\ ret' = Nil /\ Untouched)
    ]_vars

\* A second Close has returned nil after a first one that read from the
\* connection and left messages unread.
C15_Witness ==
  /\ Returned /\ op.name = "RowsClose" /\ ret = Nil /\ opLog = <<>>
  /\ hist # <<>>
  /\ hist[Len(hist)] = [op |-> [name |-> "RowsClose", tx |-> "none", r |-> op.r],
                        ret |-> Nil]
  /\ entry.log # <<>>
  /\ inbox # <<>>

----------------------------------------------------------------------------
(* C16 *)

\* C16: a Next called on closed rows returns ErrRowsClosed at once, reads
\* nothing, delivers no row and changes neither the rows nor the connection.
C16_NextAfterClose ==
  [][ CalledOnClosed("Next") =>
        (Returned' /\ ret' = E("ErrRowsClosed") /\ Untouched) ]_vars

\* Next has returned ErrRowsClosed although a message of the rows' stream
\* was there to be read.
C16_Witness ==
  /\ Returned /\ op.name = "Next" /\ ret = E("ErrRowsClosed") /\ opLog = <<>>
  /\ rows[op.r].closed
  /\ Unread(rows[op.r].q) # <<>>

----------------------------------------------------------------------------
(* Statements run with a context, and the Summary: stmt.runquery,          *)
(* stmt.exec, stmt.pull, rows.Next and rows.Close on the path where the    *)
(* server answers every request with SUCCESS.  Each SUCCESS carries        *)
(* metadata; the connection itself is left as these operations leave it.   *)

connState == <<status, bad, sockClosed, decErr, srv, inbox, rows, op, pc, cpc,
               run, resp, err, fail, ret, opLog, entry, hist, nops>>

\* A statement may be run: none is in progress and the rows of the query
\* before are finished or closed.
MayRun ==
  /\ call.step = "idle"
  /\ srows.open => (srows.finished \/ srows.closed)

\* stmt.pull, once the RUN's SUCCESS with metadata md has been consumed:
\* sum := fromContext(ctx); sum.parseSuccess(md).
pull(ctx, md) ==
  sum' = IF ctx = "summary" THEN parseSuccess(fromContext(ctx), md) ELSE sum

\* stmt.QueryContext: runquery calls pull and returns the rows; the result
\* of the Exec before is of no account any more.
QueryContext ==
  /\ MayRun
  /\ \E ctx \in Contexts, md \in Metadata :
       /\ pull(ctx, md)
       /\ srows' = [NoRows EXCEPT !.open = TRUE, !.ctx = ctx]
       /\ call' = [NoCall EXCEPT !.kind = "Query", !.ctx = ctx]
  /\ res' = -1
  /\ UNCHANGED <<connState, faults, vers, encVars>>

\* stmt.ExecContext: exec, up to its call of consumeAll.  The rows of the
\* query before are of no account any more, and there is no result yet.
ExecContext ==
  /\ MayRun
  /\ \E ctx \in Contexts, md \in Metadata :
       /\ pull(ctx, md)
       /\ call' = [NoCall EXCEPT !.kind = "Exec", !.ctx = ctx, !.step = "pulled"]
  /\ srows' = NoRows
  /\ res' = -1
  /\ UNCHANGED <<connState, faults, vers, encVars>>

\* exec, once consumeAll has returned the terminal SUCCESS with metadata md:
\* sum := fromContext(ctx); sum.parseSuccess(md); the result points to
\* sum.Counters.
ExecResult ==
  /\ call.step = "pulled"
  /\ \E md \in Metadata :
       LET s == parseSuccess(fromContext(call.ctx), md) IN
         /\ sum' = IF call.ctx = "summary" THEN s ELSE sum
         /\ res' = RowsAffected(s.Counters)
         /\ call' = [call EXCEPT !.step = "idle", !.term = md]
  /\ UNCHANGED <<srows, connState, faults, vers, encVars>>

\* rows.Next, when the message consumed is the terminal SUCCESS with metadata
\* md: r.md = t.Metadata; r.finished = true; return io.EOF.
NextEOF ==
  /\ call.step = "idle"
  /\ srows.open /\ ~srows.closed /\ ~srows.finished
  /\ \E md \in Metadata :
       srows' = [srows EXCEPT !.md = <<md>>, !.finished = TRUE]
  /\ UNCHANGED <<sum, call, res, connState, faults, vers, encVars>>

\* rows.Close of these rows.
CloseRows ==
  /\ call.step = "idle"
  /\ srows.open /\ ~srows.closed
  /\ srows' = [srows EXCEPT !.finished = TRUE, !.closed = TRUE]
  /\ UNCHANGED <<sum, call, res, connState, faults, vers, encVars>>

NextSum ==
  \/ QueryContext
  \/ ExecContext
  \/ ExecResult
  \/ NextEOF
  \/ CloseRows

SpecSum == Init /\ [][NextSum]_vars

----------------------------------------------------------------------------
(* C17 *)

\* Summary s carries what metadata md says: its type, counters and
\* result_consumed_after, as far as md has them.
Carries(s, md) ==
  /\ md.type # <<>> => s.Type = SetString("Read", md.type[1])
  /\ md.stats # <<>> => s.Counters = parse(md.stats[1])
  /\ md.consumed # <<>> => s.ConsumedAfter = md.consumed[1]

\* C17: when the rows of a query run with the WithSummary context have been
\* closed after Next read the terminal SUCCESS, and no statement was run
\* since, the rows are finished and the Summary carries the type, the
\* counters and result_consumed_after of that SUCCESS.
\* The code does not do this: rows.Next stores the metadata in r.md, which
\* nothing reads; the Summary is parsed from the RUN's SUCCESS in stmt.pull
\* alone.
C17_SummaryFromTerminal ==
  (/\ call.kind = "Query" /\ srows.ctx = "summary"
   /\ srows.md # <<>> /\ srows.closed)
  => (srows.finished /\ Carries(sum, srows.md[1]))

----------------------------------------------------------------------------
(* C19 *)

\* The stats of metadata md, every counter 0 when md has none.
StatsOf(md) == IF md.stats = <<>> THEN [k \in StatKeys |-> 0] ELSE md.stats[1]

\* C19: when an Exec has returned its result, RowsAffected of the result is
\* nodes-created + nodes-deleted + relationships-created +
\* relationships-deleted of the stats of its terminal SUCCESS.
\* The code does not do this when that SUCCESS has no stats: parseSuccess
\* then leaves the Counters of the context's Summary as the RUN's SUCCESS or
\* an earlier Exec with the same context set them.
C19_RowsAffectedOfTerminal ==
  (call.kind = "Exec" /\ call.step = "idle")
  => res = RowsAffected(parse(StatsOf(call.term)))

----------------------------------------------------------------------------
(* C18 *)

\* C18: an Exec that has written its two requests wrote RUN and then
\* DISCARD_ALL, both before it read anything.
\* The code does not do this: stmt.exec calls stmt.pull, as runquery does,
\* which writes RUN + PULL_ALL, and then reads the whole stream with
\* consumeAll; sendRunDiscardAll is never called.
C18_ExecDiscardsAll ==
  (op.name = "Exec" /\ Len(opSent) >= 2) =>
    /\ opLog[1] = Sent("RUN:Q", nops)
    /\ opLog[2] = Sent("DISCARD_ALL", nops)

----------------------------------------------------------------------------
(* The creation of a connection: newConn, conn.handshake, conn.sendInit *)

\* newConn has made the conn and is about to call handshake.
InitDial ==
  /\ status = "idle"
  /\ bad = FALSE
  /\ sockClosed = FALSE
  /\ decErr = FALSE
  /\ srv = "READY"
  /\ inbox = <<>>
  /\ rows = <<>>
  /\ op = [name |-> "newConn", tx |-> "none", r |-> 0]
  /\ pc = "dial"
  /\ cpc = "none"
  /\ run = NoMsg
  /\ resp = NoMsg
  /\ err = Nil
  /\ fail = NoMsg
  /\ ret = E("pending")
  /\ opLog = <<>>
  /\ entry = [status |-> "idle", bad |-> FALSE, log |-> <<>>]
  /\ hist = <<>>
  /\ nops = 0
  /\ faults = 0
  /\ vers = <<>>
  /\ sum = ZeroSummary
  /\ srows = NoRows
  /\ call = NoCall
  /\ res = -1
  /\ value = <<>>
  /\ enc = <<>>
  /\ stream = <<>>
  /\ dec = <<>>
  /\ epc = "off"
  /\ held = <<>>
  /\ args = <<>>
  /\ out = <<>>
  /\ connSize = DefaultChunkSize

\* The replies a server may give to the handshake.
Replies == [1..4 -> 0..MaxByte]

\* newConn gives up: return nil, multi(err, c.Close()).
DialFails(e) ==
  /\ CloseConn
  /\ pc' = "failed"
  /\ cpc' = "none"
  /\ ret' = e

\* conn.handshake: the preamble is written, four bytes are read, and the
\* reply is refused when it is noSupportedVersions.
conn_handshake ==
  /\ pc = "dial"
  /\ opLog' = Append(opLog, Msg("SEND", "HANDSHAKE", 0, Len(handshake)))
  /\ \E v \in Replies :
       /\ vers' = v
       /\ IF v = noSupportedVersions
          THEN DialFails(E("NoSupportedVersions"))
          ELSE pc' = "init" /\ UNCHANGED <<connVars, cpc, ret>>
  /\ UNCHANGED <<decErr, srv, inbox, rows, op, callVars, entry, hist, nops,
                 faults, sumVars, encVars>>

\* conn.sendInit: INIT is written and consume is called.
sendInit ==
  /\ pc = "init"
  /\ Send("INIT", 0)
  /\ pc' = "initResp"
  /\ cpc' = "decode"
  /\ UNCHANGED <<connVars, decErr, rows, op, callVars, ret, entry, hist, nops,
                 faults, vers, sumVars, encVars>>

\* newConn after sendInit: the connection is returned when the response is a
\* SUCCESS.
newConn ==
  /\ pc = "initResp" /\ cpc = "ret"
  /\ IF err # Nil
     THEN DialFails(err)
     ELSE IF resp.t # "SUCCESS"
     THEN DialFails(UnrecognizedResponseErr(resp))
     ELSE Return(Nil) /\ UNCHANGED connVars
  /\ UNCHANGED <<decErr, srv, inbox, rows, op, callVars, opLog, entry, hist,
                 nops, faults, vers, sumVars, encVars>>

NextDial ==
  \/ conn_handshake
  \/ sendInit
  \/ ConsumeDecode
  \/ AckSend
  \/ AckDrain
  \/ ResetSend
  \/ ResetDrain
  \/ newConn

SpecDial == InitDial /\ [][NextDial]_vars

----------------------------------------------------------------------------
(* C20 *)

\* The versions the client proposes in its preamble, but for the zero
\* padding.
ProposedVersions ==
  {SubSeq(handshake, 4 * i + 1, 4 * i + 4) : i \in 1..4} \ {noSupportedVersions}

\* C20: the first thing written is the 20-byte preamble; and when the reply
\* read is not a version the client proposed, connection creation has
\* failed, the socket is closed and INIT was not written.
\* The code does not do this: handshake refuses noSupportedVersions alone, so
\* after any other reply newConn goes on to write INIT.
C20_HandshakeVersion ==
  /\ opLog # <<>> => opLog[1] = Msg("SEND", "HANDSHAKE", 0, 20)
  /\ (vers # <<>> /\ vers \notin ProposedVersions) =>
       /\ pc = "failed"
       /\ sockClosed
       /\ Sent("INIT", 0) \notin Range(opLog)

----------------------------------------------------------------------------
(* C21 *)

\* The operation in progress has written a RUN.
RunWritten ==
  /\ pc # "ready"
  /\ \E i \in 1..Len(opLog) : opLog[i].t = "SEND" /\ opLog[i].rq \in RunRequests

\* C21: while an operation that has written a RUN is in progress, every rows
\* object handed out before is finished or closed.
\* The code does not do this: conn.query, conn.exec, stmt.runquery and
\* transac test conn.bad alone and write RUN whatever rows are open.
C21_OneQueryInFlight ==
  RunWritten => NoOpenRows

----------------------------------------------------------------------------
(***************************************************************************)
(* Package encoding.  An int64 is its eight bytes, big-endian two's        *)
(* complement, so that conversions between integer types are truncations   *)
(* and extensions of bytes.  A length (Go int) that fits 32 bits is an     *)
(* integer of the model.                                                   *)
(***************************************************************************)
Pad(b, k) == [i \in 1..k |-> b]

\* int64(intN(x)) for the N/8 bytes bs of x.
SignExt(bs) == Pad(IF bs[1] >= 128 THEN 255 ELSE 0, 8 - Len(bs)) \o bs

\* intN(val) and uintN(val): the low k bytes.
Low(a, k) == SubSeq(a, Len(a) - k + 1, Len(a))

RECURSIVE ULt(_, _)
ULt(a, b) ==
  IF a = <<>> THEN FALSE
  ELSE IF a[1] # b[1] THEN a[1] < b[1]
  ELSE ULt(Tail(a), Tail(b))

\* val < other, signed.
Lt(a, b) == ULt([a EXCEPT ![1] = (@ + 128) % 256], [b EXCEPT ![1] = (@ + 128) % 256])

Le(a, b) == a = b \/ Lt(a, b)

\* a + 1 and a - 1 in the width of a.
RECURSIVE Inc(_)
Inc(a) ==
  IF a = <<>> THEN <<>>
  ELSE IF a[Len(a)] < 255 THEN [a EXCEPT ![Len(a)] = @ + 1]
  ELSE Append(Inc(SubSeq(a, 1, Len(a) - 1)), 0)

RECURSIVE Dec(_)
Dec(a) ==
  IF a = <<>> THEN <<>>
  ELSE IF a[Len(a)] > 0 THEN [a EXCEPT ![Len(a)] = @ - 1]
  ELSE Append(Dec(SubSeq(a, 1, Len(a) - 1)), 255)

RECURSIVE Shift(_, _)
Shift(a, d) ==
  IF d = 0 THEN a
  ELSE IF d > 0 THEN Shift(Inc(a), d - 1)
  ELSE Shift(Dec(a), d + 1)

\* The constants of package math.
MinInt8 == SignExt(<<128>>)
MaxInt8 == SignExt(<<127>>)
MinInt16 == SignExt(<<128, 0>>)
MaxInt16 == SignExt(<<127, 255>>)
MinInt32 == SignExt(<<128, 0, 0, 0>>)
MaxInt32 == SignExt(<<127, 255, 255, 255>>)
MinInt64 == <<128, 0, 0, 0, 0, 0, 0, 0>>
MaxInt64 == <<127, 255, 255, 255, 255, 255, 255, 255>>
MaxUint8 == 255

\* int(x) for an int64 that came from an int8, int16 or int32.
ToInt(a) ==
  (IF a[5] >= 128 THEN a[5] - 256 ELSE a[5]) * 16777216
    + a[6] * 65536 + a[7] * 256 + a[8]

\* binary.BigEndian on the unsigned k-byte integer n.
BE(n, k) == [i \in 1..k |-> (n \div (256 ^ (k - i))) % 256]

Uint16(bs) == bs[1] * 256 + bs[2]

\* The markers, by name.
Marker ==
  [TinyString |-> 128, TinySlice |-> 144, TinyMap |-> 160, TinyStruct |-> 176,
   Nil |-> 192, Float |-> 193, False |-> 194, True |-> 195,
   Int8 |-> 200, Int16 |-> 201, Int32 |-> 202, Int64 |-> 203,
   String8 |-> 208, String16 |-> 209, String32 |-> 210,
   Slice8 |-> 212, Slice16 |-> 213, Slice32 |-> 214,
   Map8 |-> 216, Map16 |-> 217, Map32 |-> 218,
   Struct8 |-> 220, Struct16 |-> 221]

endMessage == <<0, 0>>

----------------------------------------------------------------------------
(* Values and the Encoder *)

\* The values Encode is given.  A map is the sequence of its entries in the
\* order range yields them; "unsupported" is a value of a type encode does
\* not know.
VNil == [t |-> "nil", v |-> <<>>]
VBool(b) == [t |-> "bool", v |-> <<b>>]
VInt(a) == [t |-> "int", v |-> a]
VString(bs) == [t |-> "string", v |-> bs]
VList(items) == [t |-> "list", v |-> items]
VMap(entries) == [t |-> "map", v |-> entries]
VUnsupported == [t |-> "unsupported", v |-> <<>>]

Min(a, b) == IF a < b THEN a ELSE b

RECURSIVE Concat(_)
Concat(ss) == IF ss = <<>> THEN <<>> ELSE Head(ss) \o Concat(Tail(ss))

\* The calls encode makes on its chunkWriter: w.write(marker) and, through
\* binary.Write or WriteString, w.Write(p).
CallWrite(marker) == [f |-> "write", p |-> <<marker>>]
CallWriteP(p) == [f |-> "Write", p |-> p]

encodeInt(val) ==
  IF Lt(val, MinInt32) THEN <<CallWrite(Marker.Int64), CallWriteP(val)>>
  ELSE IF Lt(val, MinInt16) THEN <<CallWrite(Marker.Int32), CallWriteP(Low(val, 4))>>
  ELSE IF Lt(val, MinInt8) THEN <<CallWrite(Marker.Int16), CallWriteP(Low(val, 2))>>
  ELSE IF Lt(val, SignExt(<<240>>)) THEN <<CallWrite(Marker.Int8), CallWriteP(Low(val, 1))>>
  ELSE IF Lt(val, MaxInt8) THEN <<CallWriteP(Low(val, 1))>>
  ELSE IF Lt(val, MaxInt16) THEN <<CallWrite(Marker.Int16), CallWriteP(Low(val, 2))>>
  ELSE IF Lt(val, MaxInt32) THEN <<CallWrite(Marker.Int32), CallWriteP(Low(val, 4))>>
  ELSE <<CallWrite(Marker.Int64), CallWriteP(val)>>

\* The switch on the length in encodeString, encodeSlice and encodeMap, for
\* the tiny marker and the 8-bit marker of the type; the 16- and 32-bit
\* markers follow the 8-bit one.  Lengths of the model are below 2^31, so the
\* last case is the 32-bit one.
header(tiny, m8, length) ==
  IF length <= 15 THEN <<CallWrite(tiny + length)>>
  ELSE IF length <= MaxUint8 THEN <<CallWrite(m8), CallWriteP(BE(length, 1))>>
  ELSE IF length <= MaxUint16 THEN <<CallWrite(m8 + 1), CallWriteP(BE(length, 2))>>
  ELSE <<CallWrite(m8 + 2), CallWriteP(BE(length, 4))>>

encodeString(str) ==
  IF Len(str) = 0
  THEN header(Marker.TinyString, Marker.String8, 0)
  ELSE Append(header(Marker.TinyString, Marker.String8, Len(str)), CallWriteP(str))

\* The keys and values of a map, in the order they are encoded.
RECURSIVE Flatten(_)
Flatten(entries) ==
  IF entries = <<>> THEN <<>>
  ELSE <<VString(Head(entries)[1]), Head(entries)[2]>> \o Flatten(Tail(entries))

\* encode: the calls made, and the error returned ("" for nil).
RECURSIVE encode(_)
RECURSIVE encodeAll(_)
encode(val) ==
  CASE val.t = "nil" -> [calls |-> <<CallWrite(Marker.Nil)>>, err |-> ""]
    [] val.t = "bool" ->
         [calls |-> <<CallWrite(IF val.v[1] THEN Marker.True ELSE Marker.False)>>, err |-> ""]
    [] val.t = "int" -> [calls |-> encodeInt(val.v), err |-> ""]
    [] val.t = "string" -> [calls |-> encodeString(val.v), err |-> ""]
    [] val.t = "list" ->
         LET items == encodeAll(val.v)
         IN [items EXCEPT !.calls = header(Marker.TinySlice, Marker.Slice8, Len(val.v)) \o @]
    [] val.t = "map" ->
         LET items == encodeAll(Flatten(val.v))
         IN [items EXCEPT !.calls = header(Marker.TinyMap, Marker.Map8, Len(val.v)) \o @]
    [] OTHER -> [calls |-> <<>>, err |-> "unrecognized type"]

\* The loops of encodeSlice and encodeMap: they stop at the first error.
encodeAll(items) ==
  IF items = <<>> THEN [calls |-> <<>>, err |-> ""]
  ELSE LET h == encode(Head(items))
       IN IF h.err # "" THEN h
          ELSE LET t == encodeAll(Tail(items))
               IN [t EXCEPT !.calls = h.calls \o @]

\* The PackStream encoding of val: the bytes of the calls, in order.
RECURSIVE Payload(_)
Payload(calls) ==
  IF calls = <<>> THEN <<>> ELSE Head(calls).p \o Payload(Tail(calls))

\* chunkWriter.  buf holds the bytes written to w.buf so far, from its
\* start; the rest of the 65535 bytes NewEncoder allocates is zero.
NewEncoder == [buf |-> <<>>, n |-> 0, size |-> DefaultChunkSize]

Take(buf, k) == [i \in 1..k |-> IF i <= Len(buf) THEN buf[i] ELSE 0]

\* copy(buf[at:], p), for at + Len(p) within the buffer.
Put(buf, at, p) ==
  [i \in 1..(IF Len(buf) > at + Len(p) THEN Len(buf) ELSE at + Len(p)) |->
     IF i > at /\ i <= at + Len(p) THEN p[i - at]
     ELSE IF i <= Len(buf) THEN buf[i] ELSE 0]

\* s is [w: the chunkWriter, wire: the bytes written to w.w, err].
writeChunk(s) ==
  IF s.w.n = 0 THEN s
  ELSE [s EXCEPT !.wire = @ \o BE(s.w.n, 2) \o Take(s.w.buf, s.w.n), !.w.n = 0]

\* Write and WriteString.  When the buffer is full and n is not size, copy
\* copies nothing and the loop does not end.
RECURSIVE Write(_, _)
Write(s, p) ==
  IF p = <<>> THEN s
  ELSE LET m == Min(DefaultChunkSize - s.w.n, Len(p))
           s1 == [s EXCEPT !.w.buf = Put(@, s.w.n, SubSeq(p, 1, m)),
                           !.w.n = (@ + m) % 65536]
       IN IF m = 0 THEN [s EXCEPT !.err = "hang"]
          ELSE Write(IF s1.w.n = s1.w.size THEN writeChunk(s1) ELSE s1,
                     SubSeq(p, m + 1, Len(p)))

write(s, marker) ==
  IF s.w.n >= DefaultChunkSize THEN [s EXCEPT !.err = "panic"]
  ELSE LET s1 == [s EXCEPT !.w.buf = Put(@, s.w.n, <<marker>>),
                           !.w.n = (@ + 1) % 65536]
       IN IF s1.w.n = s1.w.size THEN writeChunk(s1) ELSE s1

Flush(s) == [writeChunk(s) EXCEPT !.wire = @ \o endMessage]

RECURSIVE Apply(_, _)
Apply(s, calls) ==
  IF calls = <<>> \/ s.err # "" THEN s
  ELSE Apply(IF Head(calls).f = "write" THEN write(s, Head(calls).p[1])
             ELSE Write(s, Head(calls).p),
             Tail(calls))

\* Encoder.Encode on chunkWriter w with wire written before.
Encode(w, wire, val) ==
  LET e == encode(val)
      s == Apply([w |-> w, wire |-> wire, err |-> ""], e.calls)
  IN IF s.err # "" THEN s
     ELSE IF e.err # "" THEN [s EXCEPT !.err = e.err]
     ELSE Flush(s)

\* Marshal.
Marshal(val) == Encode(NewEncoder, <<>>, val)

----------------------------------------------------------------------------
(* chunkReader and the Decoder, reading the bytes s *)

\* r is [pos: the bytes of s read so far, length: chunkReader.length].
NewDecoder == [pos |-> 0, length |-> 0]

\* chunkReader.next: the two bytes of a chunk header; io.EOF for 00 00.
next(s, r) ==
  IF r.pos + 2 > Len(s)
  THEN [r |-> [r EXCEPT !.pos = Len(s)],
        err |-> IF r.pos = Len(s) THEN "EOF" ELSE "ErrUnexpectedEOF"]
  ELSE [r |-> [pos |-> r.pos + 2, length |-> Uint16(SubSeq(s, r.pos + 1, r.pos + 2))],
        err |-> IF Uint16(SubSeq(s, r.pos + 1, r.pos + 2)) = 0 THEN "EOF" ELSE ""]

\* The start of Read and of ReadByte: next is called when the chunk is
\* used up.
atChunk(s, r) == IF r.length <= 0 THEN next(s, r) ELSE [r |-> r, err |-> ""]

\* The read of n bytes from the underlying reader, of which there are
\* some.
readBytes(s, r, n) ==
  [data |-> SubSeq(s, r.pos + 1, r.pos + n),
   r |-> [pos |-> r.pos + n, length |-> (r.length + 65536 - n) % 65536],
   err |-> IF r.pos >= Len(s) THEN "EOF" ELSE ""]

\* Read, had it not cut p down to the rest of the chunk.
readChunk_Unbounded(s, nx, k) ==
  IF nx.err # "" THEN [data |-> <<>>, r |-> nx.r, err |-> nx.err]
  ELSE readBytes(s, nx.r, Min(k, Len(s) - nx.r.pos))

\* The rest of Read for len(p) = k: at most the rest of the chunk is read.
readChunk(s, nx, k) ==
  IF nx.err # "" THEN [data |-> <<>>, r |-> nx.r, err |-> nx.err]
  ELSE readBytes(s, nx.r, Min(Min(k, nx.r.length), Len(s) - nx.r.pos))

\* chunkReader.Read with len(p) = k.
Read(s, r, k) == readChunk(s, atChunk(s, r), k)

\* The rest of ReadByte.
readByteAt(s, nx) ==
  IF nx.err # "" THEN [c |-> 0, r |-> nx.r, err |-> nx.err]
  ELSE IF nx.r.pos >= Len(s) THEN [c |-> 0, r |-> nx.r, err |-> "EOF"]
  ELSE [c |-> s[nx.r.pos + 1],
        r |-> [pos |-> nx.r.pos + 1, length |-> nx.r.length - 1],
        err |-> ""]

\* chunkReader.ReadByte.
ReadByte(s, r) == readByteAt(s, atChunk(s, r))

\* io.ReadFull(d.r, buf) with len(buf) = k: Read is called until buf is
\* full; a is what the call before returned.
RECURSIVE ReadFull(_, _, _)
RECURSIVE readMore(_, _, _)
joinReads(a, b) ==
  [data |-> a.data \o b.data,
   r |-> b.r,
   err |-> IF b.err = "EOF" THEN "ErrUnexpectedEOF" ELSE b.err]

readMore(s, a, k) ==
  IF a.err # "" THEN a
  ELSE joinReads(a, ReadFull(s, a.r, k - Len(a.data)))

ReadFull(s, r, k) ==
  IF k = 0 THEN [data |-> <<>>, r |-> r, err |-> ""]
  ELSE readMore(s, Read(s, r, k), k)

\* What decode returns: the value, the reader after it, the error.
Decoded(v, r) == [v |-> v, r |-> r, err |-> ""]
Failed(r, e) == [v |-> VNil, r |-> r, err |-> e]

\* int64(intN(x)) of the bytes read.
signed(a) ==
  IF a.err # "" THEN Failed(a.r, a.err) ELSE Decoded(SignExt(a.data), a.r)

\* int64(uintN(x)) of the bytes read.
unsigned(a) ==
  IF a.err # "" THEN Failed(a.r, a.err)
  ELSE Decoded(Pad(0, 8 - Len(a.data)) \o a.data, a.r)

\* int8, had it converted the byte to int64 without its sign.
int8_Unsigned(s, r) == unsigned(ReadFull(s, r, 1))

int8(s, r) == signed(ReadFull(s, r, 1))

int16(s, r) == signed(ReadFull(s, r, 2))

int32(s, r) == signed(ReadFull(s, r, 4))

int64(s, r) == signed(ReadFull(s, r, 8))

adjust(c) == IF c < 192 /\ c > 128 THEN c - (c % 16) ELSE c

\* string(buf) of the bytes read.
asString(a) ==
  IF a.err # "" THEN Failed(a.r, a.err) ELSE Decoded(VString(a.data), a.r)

\* A negative size is a slice bound out of range.
decodeString(s, r, size) ==
  IF size = 0 THEN Decoded(VString(<<>>), r)
  ELSE IF size < 0 THEN Failed(r, "panic")
  ELSE asString(ReadFull(s, r, size))

\* m[key] = val.
SetEntry(entries, key, val) ==
  IF \E i \in 1..Len(entries) : entries[i][1] = key
  THEN [i \in 1..Len(entries) |->
          IF entries[i][1] = key THEN <<key, val>> ELSE entries[i]]
  ELSE Append(entries, <<key, val>>)

\* The entries of a map from its keys and values in the order read.
RECURSIVE Entries(_, _)
Entries(kvs, m) ==
  IF kvs = <<>> THEN m
  ELSE Entries(Tail(Tail(kvs)), SetEntry(m, kvs[1].v, kvs[2]))

asList(items) == IF items.err # "" THEN items ELSE [items EXCEPT !.v = VList(@)]

asMap(items) ==
  IF items.err # "" THEN items ELSE [items EXCEPT !.v = VMap(Entries(@, <<>>))]

\* The length that follows an 8-, 16- or 32-bit marker, as decode converts
\* it.
sized(length) ==
  IF length.err # "" THEN length ELSE [length EXCEPT !.v = ToInt(@)]

\* The size decode passes to decodeString, decodeSlice or decodeMap for
\* marker, with a = adjust(marker).
sizeOf(s, r, marker, a) ==
  CASE a \in {Marker.TinyString, Marker.TinySlice, Marker.TinyMap} -> Decoded(marker - a, r)
    [] a \in {Marker.String8, Marker.Slice8, Marker.Map8} -> sized(int8(s, r))
    [] a \in {Marker.String16, Marker.Slice16, Marker.Map16} -> sized(int16(s, r))
    [] a \in {Marker.String32, Marker.Slice32, Marker.Map32} -> sized(int32(s, r))

\* An integer returned by decode.
asInt(i) == IF i.err # "" THEN i ELSE [i EXCEPT !.v = VInt(@)]

RECURSIVE decode(_, _)
RECURSIVE decodeItems(_, _, _, _, _)
RECURSIVE addItem(_, _, _, _, _)
RECURSIVE decodeSized(_, _, _)
RECURSIVE decodeMarker(_, _, _, _)
RECURSIVE decodeByte(_, _)

\* The loops of decodeSlice and of decodeMap (keyed), with left calls of
\* decode to make: in a map every other value is a key, a string.
addItem(s, item, left, got, keyed) ==
  IF item.err # "" THEN Failed(item.r, item.err)
  ELSE IF keyed /\ Len(got) % 2 = 0 /\ item.v.t # "string"
  THEN Failed(item.r, "unexpected key type")
  ELSE decodeItems(s, item.r, left - 1, Append(got, item.v), keyed)

decodeItems(s, r, left, got, keyed) ==
  IF left <= 0 THEN Decoded(got, r)
  ELSE addItem(s, decode(s, r), left, got, keyed)

\* make([]interface{}, size) panics for a negative size.
decodeSlice(s, r, size) ==
  IF size < 0 THEN Failed(r, "panic")
  ELSE asList(decodeItems(s, r, size, <<>>, FALSE))

\* make(map, size) takes a negative size, and the loop then reads nothing.
decodeMap(s, r, size) == asMap(decodeItems(s, r, 2 * size, <<>>, TRUE))

\* The calls decode makes once it has the size.
decodeSized(s, a, length) ==
  IF length.err # "" THEN length
  ELSE IF a \in {Marker.TinyString, Marker.String8, Marker.String16, Marker.String32}
  THEN decodeString(s, length.r, length.v)
  ELSE IF a \in {Marker.TinySlice, Marker.Slice8, Marker.Slice16, Marker.Slice32}
  THEN decodeSlice(s, length.r, length.v)
  ELSE decodeMap(s, length.r, length.v)

\* The switch of decode on a = adjust(marker).  Structures and floats are
\* not among the values of the model.
decodeMarker(s, r, marker, a) ==
  CASE a = Marker.Nil -> Decoded(VNil, r)
    [] a = Marker.True -> Decoded(VBool(TRUE), r)
    [] a = Marker.False -> Decoded(VBool(FALSE), r)
    [] a = Marker.Int8 -> asInt(int8(s, r))
    [] a = Marker.Int16 -> asInt(int16(s, r))
    [] a = Marker.Int32 -> asInt(int32(s, r))
    [] a = Marker.Int64 -> asInt(int64(s, r))
    [] a \in {Marker.TinyString, Marker.String8, Marker.String16, Marker.String32,
              Marker.TinySlice, Marker.Slice8, Marker.Slice16, Marker.Slice32,
              Marker.TinyMap, Marker.Map8, Marker.Map16, Marker.Map32} ->
         decodeSized(s, a, sizeOf(s, r, marker, a))
    [] a \in {Marker.Float, Marker.TinyStruct, Marker.Struct8, Marker.Struct16} ->
         Failed(r, "not modelled")
    [] OTHER ->
         IF marker < 128 \/ marker >= 240
         THEN Decoded(VInt(SignExt(<<marker>>)), r)
         ELSE Failed(r, "unrecognized marker byte")

\* decode after its ReadByte.
decodeByte(s, b) ==
  IF b.err # "" THEN Failed(b.r, b.err)
  ELSE decodeMarker(s, b.r, b.c, adjust(b.c))

decode(s, r) == decodeByte(s, ReadByte(s, r))

\* The end of Decode: the two bytes read after the value.
checkEOF(d, eof) ==
  IF eof.err = "EOF" THEN [d EXCEPT !.r = eof.r]
  ELSE IF eof.err # "" THEN Failed(eof.r, eof.err)
  ELSE IF Uint16(eof.data) # 0 THEN Failed(eof.r, "invalid eof")
  ELSE [d EXCEPT !.r = eof.r]

decodeEnd(s, d) == IF d.err # "" THEN d ELSE checkEOF(d, ReadFull(s, d.r, 2))

\* Decoder.Decode on a new Decoder: the value, and the terminator after it.
Decode(s) == decodeEnd(s, decode(s, NewDecoder))

\* MaybeMap: the loop over the chunks.  m[2+clen:] is a slice bound out of
\* range when clen is len(m) or len(m) - 1.
RECURSIVE maybeMapChunks(_)
maybeMapChunks(m) ==
  LET clen == Uint16(m)
      rest == SubSeq(m, 3 + clen, Len(m))
  IN IF clen > Len(m) THEN [v |-> FALSE, err |-> ""]
     ELSE IF 2 + clen > Len(m) THEN [v |-> FALSE, err |-> "panic"]
     ELSE IF Len(rest) <= 2
     THEN [v |-> Len(rest) = 2 /\ rest = endMessage, err |-> ""]
     ELSE maybeMapChunks(rest)

MaybeMap(m) ==
  IF Len(m) < 5 THEN [v |-> FALSE, err |-> ""]
  ELSE IF adjust(m[3]) \notin {Marker.TinyMap, Marker.Map8, Marker.Map16, Marker.Map32}
  THEN [v |-> FALSE, err |-> ""]
  ELSE maybeMapChunks(m)

----------------------------------------------------------------------------
(***************************************************************************)
(* An Encoder, the bytes it writes, and a Decoder reading them.            *)
(***************************************************************************)
MaxDelta == 1       \* integers this close to a limit of an integer type
MaxChunkSize == 3   \* chunk sizes set, besides the default one
MaxChunks == 3      \* chunks a peer splits a message in
MaxSplit == 20      \* length of the payloads a peer splits
MaxEmit == 12       \* bytes SetChunkSize may write before the model stops it
MaxRaw == 5         \* length of the byte strings given to MaybeMap

Limits ==
  {MinInt64, MinInt32, MinInt16, MinInt8, SignExt(<<240>>), Pad(0, 8),
   MaxInt8, MaxInt16, MaxInt32, MaxInt64}

Ints == {Shift(l, d) : l \in Limits, d \in (0 - MaxDelta)..MaxDelta}

StringLens == {0, 1, 15, 16, 127, 128, 255, 256}

One == VInt(SignExt(<<1>>))

IntValues == {VInt(a) : a \in Ints}
StringValues == {VString(Pad(97, n)) : n \in StringLens}
ListValues ==
  {VList(<<>>), VList(<<One>>), VList(<<VInt(Inc(MaxInt8)), VString(<<97, 98>>)>>),
   VList(Pad(VNil, 16)), VList(<<VList(<<VBool(TRUE)>>), VNil>>),
   VList(<<One, VInt(MinInt16), VUnsupported>>),
   VList(<<VString(<<97, 98, 99>>), VUnsupported>>)}
MapValues ==
  {VMap(<<>>), VMap(<< <<(<<97>>), One>> >>),
   VMap(<< <<(<<97>>), One>>, <<(<<98>>), VString(<<120>>)>> >>),
   VMap(<< <<(<<98>>), VString(<<120>>)>>, <<(<<97>>), One>> >>),
   VMap([i \in 1..16 |-> <<(<<96 + i>>), VNil>>])}
OtherValues == {VNil, VBool(TRUE), VBool(FALSE), VUnsupported}

ChunkSizes == 0..MaxChunkSize \cup {DefaultChunkSize}

RawBytes == {0, 1, 2, 5, 160, 216}

RECURSIVE SeqsOf(_, _)
SeqsOf(S, n) ==
  IF n = 0 THEN {<<>>}
  ELSE LET shorter == SeqsOf(S, n - 1)
       IN shorter \cup {Append(q, b) : q \in {q0 \in shorter : Len(q0) = n - 1}, b \in S}

\* The ways of cutting n bytes in at most k chunks, none empty.
RECURSIVE Splits(_, _)
Splits(n, k) ==
  IF n = 0 THEN {<<>>}
  ELSE IF k = 0 THEN {}
  ELSE UNION {{<<first>> \o rest : rest \in Splits(n - first, k - 1)} : first \in 1..n}

\* The message with payload p cut in the chunks c.
RECURSIVE Frame(_, _)
Frame(p, c) ==
  IF c = <<>> THEN endMessage
  ELSE BE(Head(c), 2) \o SubSeq(p, 1, Head(c))
         \o Frame(SubSeq(p, Head(c) + 1, Len(p)), Tail(c))

\* The connection is not looked at.
ConnAtInit ==
  /\ status = "idle"
  /\ bad = FALSE
  /\ sockClosed = FALSE
  /\ decErr = FALSE
  /\ srv = "READY"
  /\ inbox = <<>>
  /\ rows = <<>>
  /\ op = [name |-> "none", tx |-> "none", r |-> 0]
  /\ pc = "ready"
  /\ cpc = "none"
  /\ run = NoMsg
  /\ resp = NoMsg
  /\ err = Nil
  /\ fail = NoMsg
  /\ ret = E("none")
  /\ opLog = <<>>
  /\ entry = [status |-> "idle", bad |-> FALSE, log |-> <<>>]
  /\ hist = <<>>
  /\ nops = 0
  /\ faults = 0
  /\ vers = version1_0
  /\ sum = ZeroSummary
  /\ srows = NoRows
  /\ call = NoCall
  /\ res = -1
  /\ connSize = DefaultChunkSize

offEnc == <<connState, faults, vers, sumVars, connSize>>

NoHeld == [buf |-> <<>>, mark |-> 0]

\* A new Encoder and a value to encode, or bytes a caller has.
InitCodec ==
  /\ ConnAtInit
  /\ enc = NewEncoder
  /\ dec = <<>>
  /\ held = NoHeld
  /\ args = <<>>
  /\ out = <<>>
  /\ \/ /\ epc = "new"
        /\ stream = <<>>
        /\ \/ value \in IntValues
           \/ value \in StringValues
           \/ value \in ListValues
           \/ value \in MapValues
           \/ value \in OtherValues
     \/ /\ epc = "bytes"
        /\ value = VNil
        /\ stream \in SeqsOf(RawBytes, MaxRaw)

\* Encoder.SetChunkSize up to its loop.  The buffer is never replaced: no
\* uint16 is larger than the 65535 bytes NewEncoder allocates.
SetChunkSize(size) ==
  /\ epc \in {"new", "failed"}
  /\ held' = [buf |-> Take(enc.buf, enc.n), mark |-> Len(stream)]
  /\ enc' = [enc EXCEPT !.size = size]
  /\ epc' = IF enc.size # size /\ enc.n >= size THEN "resize"
            ELSE IF epc = "new" THEN "sized" ELSE "resized"
  /\ UNCHANGED <<value, stream, dec, args, out>>
  /\ UNCHANGED offEnc

\* One test of the loop of SetChunkSize, and the turn that follows it.
SetChunkSizeLoop ==
  /\ epc = "resize"
  /\ Len(stream) - held.mark <= MaxEmit
  /\ IF enc.n >= enc.size
     THEN LET s == writeChunk([w |-> [enc EXCEPT !.n = enc.size],
                               wire |-> stream, err |-> ""])
              m == Min(enc.size, DefaultChunkSize - s.w.n)
              from == Take(s.w.buf, s.w.n + m)
          IN /\ enc' = [s.w EXCEPT !.buf = Put(@, 0, SubSeq(from, s.w.n + 1, s.w.n + m)),
                                   !.n = m]
             /\ stream' = s.wire
             /\ epc' = "resize"
     ELSE /\ epc' = "resized"
          /\ UNCHANGED <<enc, stream>>
  /\ UNCHANGED <<value, dec, held, args, out>>
  /\ UNCHANGED offEnc

\* Encoder.Encode(value).
Encode_ ==
  /\ epc \in {"new", "sized"}
  /\ LET s == Encode(enc, stream, value)
     IN /\ enc' = s.w
        /\ stream' = s.wire
        /\ epc' = IF s.err = "" THEN "encoded"
                  ELSE IF s.err \in {"hang", "panic"} THEN s.err
                  ELSE "failed"
  /\ UNCHANGED <<value, dec, held, args, out>>
  /\ UNCHANGED offEnc

\* The values a caller encodes after an Encode that returned an error.
NextValues == {One, VString(<<97>>)}

\* Encoder.Encode(v) on an Encoder whose last Encode returned an error.
EncodeNext(v) ==
  /\ epc = "failed"
  /\ value' = v
  /\ held' = [buf |-> Take(enc.buf, enc.n), mark |-> Len(stream)]
  /\ LET s == Encode(enc, stream, v)
     IN /\ enc' = s.w
        /\ stream' = s.wire
        /\ epc' = IF s.err = "" THEN "reencoded"
                  ELSE IF s.err \in {"hang", "panic"} THEN s.err
                  ELSE "failed"
  /\ UNCHANGED <<dec, args, out>>
  /\ UNCHANGED offEnc

\* The peer writes the encoding of value in the chunks c.
Chunked(c) ==
  /\ epc = "new"
  /\ encode(value).err = ""
  /\ stream' = Frame(Payload(encode(value).calls), c)
  /\ epc' = "received"
  /\ UNCHANGED <<value, enc, dec, held, args, out>>
  /\ UNCHANGED offEnc

\* Decoder.Decode on a new Decoder that reads stream.
Decode_ ==
  /\ epc \in {"encoded", "received"}
  /\ dec' = Decode(stream)
  /\ epc' = "decoded"
  /\ UNCHANGED <<value, enc, stream, held, args, out>>
  /\ UNCHANGED offEnc

\* MaybeMap(stream).
MaybeMap_ ==
  /\ epc \in {"encoded", "bytes"}
  /\ out' = MaybeMap(stream)
  /\ epc' = "tested"
  /\ UNCHANGED <<value, enc, stream, dec, held, args>>
  /\ UNCHANGED offEnc

NextCodec ==
  \/ \E size \in ChunkSizes : SetChunkSize(size)
  \/ SetChunkSizeLoop
  \/ Encode_
  \/ \E v \in NextValues : EncodeNext(v)
  \/ \E c \in Splits(Min(Len(Payload(encode(value).calls)), MaxSplit), MaxChunks) :
       /\ Len(Payload(encode(value).calls)) <= MaxSplit
       /\ Chunked(c)
  \/ Decode_
  \/ MaybeMap_

SpecCodec == InitCodec /\ [][NextCodec]_vars

----------------------------------------------------------------------------
(* C22 *)

\* The chunks of the message m: their payloads, and whether m is chunks
\* followed by one 00 00 and nothing else.
RECURSIVE Chunks(_)
Chunks(m) ==
  IF Len(m) < 2 THEN [ok |-> FALSE, chunks |-> <<>>]
  ELSE IF Uint16(m) = 0 THEN [ok |-> Len(m) = 2, chunks |-> <<>>]
  ELSE IF Len(m) < 2 + Uint16(m) THEN [ok |-> FALSE, chunks |-> <<>>]
  ELSE [Chunks(SubSeq(m, 3 + Uint16(m), Len(m)))
          EXCEPT !.chunks = <<SubSeq(m, 3, 2 + Uint16(m))>> \o @]

\* The PackStream bytes the Encoder has written for value.
Written == Concat(Chunks(stream).chunks)

\* The form of the integer encoding p.
FormOf(p) ==
  IF Len(p) = 1 THEN "tiny"
  ELSE IF Len(p) = 2 /\ p[1] = 200 THEN "Int8"
  ELSE IF Len(p) = 3 /\ p[1] = 201 THEN "Int16"
  ELSE IF Len(p) = 5 /\ p[1] = 202 THEN "Int32"
  ELSE IF Len(p) = 9 /\ p[1] = 203 THEN "Int64"
  ELSE "none"

Within(lo, v, hi) == Le(lo, v) /\ Le(v, hi)

\* The narrowest form that holds v.
Narrowest(v) ==
  IF Within(SignExt(<<240>>), v, SignExt(<<127>>)) THEN "tiny"
  ELSE IF Within(SignExt(<<128>>), v, SignExt(<<239>>)) THEN "Int8"
  ELSE IF Within(SignExt(<<128, 0>>), v, SignExt(<<127, 255>>)) THEN "Int16"
  ELSE IF Within(SignExt(<<128, 0, 0, 0>>), v, SignExt(<<127, 255, 255, 255>>))
  THEN "Int32"
  ELSE "Int64"

\* C22: the encoding written for an integer has the narrowest form that
\* holds it: tiny for -16..127, Int8 for -128..-17, Int16 for the rest of
\* -2^15..2^15-1, Int32 for the rest of -2^31..2^31-1, Int64 for the others.
\* The code does not do this: encodeInt tests val < MaxInt8, val < MaxInt16
\* and val < MaxInt32, so 127, 2^15-1 and 2^31-1 get the next wider form.
C22_IntegerNarrowing ==
  (epc = "encoded" /\ value.t = "int") => FormOf(Written) = Narrowest(value.v)

----------------------------------------------------------------------------
(* C23 *)

\* C23: Decode of the message written for an integer returns that integer.
C23_IntegerRoundTrip ==
  (epc = "decoded" /\ value.t = "int") => (dec.err = "" /\ dec.v = value)

\* -128, written as Int8 with the byte 80, has been decoded.
C23_Witness ==
  /\ epc = "decoded"
  /\ value = VInt(MinInt8)
  /\ Concat(Chunks(stream).chunks) = <<200, 128>>
  /\ dec.v = value

----------------------------------------------------------------------------
(* C24 *)

\* C24: Decode of the message written for a string, a list or a map returns
\* that value.
\* The code does not do this: decode reads the length after String8,
\* Slice8 and Map8 with int8(), and the 16- and 32-bit ones with int16() and
\* int32(), which are signed; a length of 128 is read as -128.
C24_SizedRoundTrip ==
  (epc = "decoded" /\ value.t \in {"string", "list", "map"}) =>
    (dec.err = "" /\ dec.v = value)

----------------------------------------------------------------------------
(* C25 *)

\* C25: with a chunk size in 1..65535, what Encode has written is one or
\* more chunks of at least one and at most size bytes, then one 00 00, and
\* the chunks together are the encoding of the value.
\* The code does not do this: Write copies into w.buf[w.n:], which ends
\* with the buffer and not at size, and flushes when n equals size; bytes
\* written past size in one call stay in one chunk.
C25_Framing ==
  (epc = "encoded" /\ enc.size >= 1) =>
    /\ Chunks(stream).ok
    /\ Chunks(stream).chunks # <<>>
    /\ \A i \in 1..Len(Chunks(stream).chunks) :
         Len(Chunks(stream).chunks[i]) \in 1..enc.size
    /\ Written = Payload(encode(value).calls)

----------------------------------------------------------------------------
(* C26 *)

\* The payloads of the chunks m, which no 00 00 follows.
RECURSIVE Emitted(_)
Emitted(m) ==
  IF Len(m) < 2 \/ Len(m) < 2 + Uint16(m) THEN <<>>
  ELSE SubSeq(m, 3, 2 + Uint16(m)) \o Emitted(SubSeq(m, 3 + Uint16(m), Len(m)))

\* C26: at every turn of SetChunkSize(size) for a size of 1 or more, and
\* when it has returned, the bytes it has written followed by the bytes
\* still buffered are the bytes that were buffered when it was called.
\* The code does not do this: writeChunk sets n to 0 before the buffer is
\* slid, so copy(buf[:size], buf[0:]) moves nothing and gives n = size: the
\* same size bytes are written again at every turn and the loop does not end.
C26_ResizeKeepsBytes ==
  (epc \in {"resize", "resized"} /\ enc.size >= 1) =>
    Emitted(SubSeq(stream, held.mark + 1, Len(stream))) \o Take(enc.buf, enc.n)
      = held.buf

----------------------------------------------------------------------------
(* C27 *)

\* The message that holds the encoding of value in one chunk.
OneChunk ==
  Frame(Payload(encode(value).calls), <<Len(Payload(encode(value).calls))>>)

\* C27: Decode of a message returns what it returns for the same payload in
\* one chunk, and when it returns a value all of the message has been read.
C27_ChunkingTransparent ==
  epc = "decoded" =>
    /\ dec.err = Decode(OneChunk).err
    /\ dec.v = Decode(OneChunk).v
    /\ dec.err = "" => dec.r.pos = Len(stream)

\* -2^15 has been decoded from chunks that cut its two bytes apart.
C27_Witness ==
  /\ epc = "decoded"
  /\ value = VInt(MinInt16)
  /\ stream = <<0, 2, 201, 128, 0, 1, 0, 0, 0>>
  /\ dec.v = value

----------------------------------------------------------------------------
(* C30 *)

\* From byte p of m on, the chunk lengths lead to the last two bytes of m,
\* which are 00 00.
RECURSIVE Lands(_, _)
Lands(m, p) ==
  IF p + 2 = Len(m) THEN SubSeq(m, p + 1, p + 2) = <<0, 0>>
  ELSE IF p + 2 > Len(m) THEN FALSE
  ELSE Lands(m, p + 2 + Uint16(SubSeq(m, p + 1, p + 2)))

MapFramed(m) ==
  /\ Len(m) >= 5
  /\ m[3] \in (160..175) \cup (216..218)
  /\ Lands(m, 0)

\* C30: MaybeMap returns whether its argument has at least five bytes, a
\* map marker as its third byte and chunk lengths that lead to a final
\* 00 00.
\* The code does not do this: for a chunk length of len(m) or len(m) - 1
\* the test clen > len(m) passes and m[2+clen:] panics.
C30_MaybeMap ==
  epc = "tested" => (out.err = "" /\ out.v = MapFramed(stream))

----------------------------------------------------------------------------
(* Statement arguments: driverArgsToMap2, driverArgsToMap, CheckNamedValue *)

\* A value of type Map; VMap is a map[string]interface{} that is no Map.
VMapT(entries) == [t |-> "Map", v |-> entries]

ErrNotMap == "bolt: if one argument is passed it must of type Map"
errOddLength == "bolt: odd number of arguments"
errNotString == "bolt: odd-numbered arguments must be strings"
errCheckName == "argument name cannot be empty"

\* What the two functions return: a map (nil or its entries) and an error.
NilMap(e) == [nil |-> TRUE, m |-> <<>>, err |-> e]
Params(m) == [nil |-> FALSE, m |-> m, err |-> ""]

\* The loop of driverArgsToMap2 over the arguments left, out being the map
\* built so far.
RECURSIVE pairArgs_AnyKey(_, _)
pairArgs_AnyKey(a, m) ==
  IF a = <<>> THEN Params(m)
  ELSE pairArgs_AnyKey(Tail(Tail(a)),
         SetEntry(m, IF a[1].t = "string" THEN a[1].v ELSE <<>>, a[2]))

RECURSIVE pairArgs(_, _)
pairArgs(a, m) ==
  IF a = <<>> THEN Params(m)
  ELSE IF a[1].t # "string" THEN NilMap(errNotString)
  ELSE pairArgs(Tail(Tail(a)), SetEntry(m, a[1].v, a[2]))

driverArgsToMap2(a) ==
  IF Len(a) = 0 THEN NilMap("")
  ELSE IF Len(a) = 1
  THEN IF a[1].t = "Map" THEN Params(a[1].v) ELSE NilMap(ErrNotMap)
  ELSE IF Len(a) % 2 # 0 THEN NilMap(errOddLength)
  ELSE pairArgs(a, <<>>)

isGo19 == TRUE

\* The loop of driverArgsToMap over the arguments left.
RECURSIVE nameArgs(_, _)
nameArgs(a, m) ==
  IF a = <<>> THEN Params(m)
  ELSE IF a[1].Name = <<>> THEN NilMap("bolt: cannot have an empty name")
  ELSE nameArgs(Tail(a), SetEntry(m, a[1].Name, a[1].Value))

\* With isGo19 the []byte branch is not compiled in.
driverArgsToMap(a) ==
  IF Len(a) = 0 THEN NilMap("")
  ELSE IF Len(a) = 1
  THEN IF isGo19 /\ a[1].Value.t = "Map" THEN Params(a[1].Value.v)
       ELSE NilMap(ErrNotMap)
  ELSE nameArgs(a, <<>>)

\* stmt.CheckNamedValue: the error it returns for v, "" for nil.
CheckNamedValue(v) ==
  IF v.Value.t = "Map" \/ v.Name # <<>> THEN "" ELSE errCheckName

MaxArgs == 4
MaxNamed == 3

ArgValues ==
  {VMapT(<<>>), VMapT(<< <<(<<97>>), One>> >>), VString(<<97>>),
   VString(<<98>>), One, VNil}
ArgNames == {<<>>, <<97>>, <<98>>}
NamedValues ==
  {[Name |-> n, Value |-> v] :
     n \in ArgNames, v \in {VMapT(<< <<(<<97>>), One>> >>), VString(<<97>>), One}}

\* The arguments of one call of Exec or Query (positional) or of
\* ExecContext or QueryContext (named).
InitArgs ==
  /\ ConnAtInit
  /\ value = VNil
  /\ enc = <<>>
  /\ stream = <<>>
  /\ dec = <<>>
  /\ held = NoHeld
  /\ out = <<>>
  /\ \/ /\ epc = "positional"
        /\ args \in SeqsOf(ArgValues, MaxArgs)
     \/ /\ epc = "named"
        /\ args \in SeqsOf(NamedValues, MaxNamed)

\* stmt.Exec and stmt.Query up to the call of exec or runquery.
driverArgsToMap2_ ==
  /\ epc = "positional"
  /\ out' = driverArgsToMap2(args)
  /\ epc' = "mapped2"
  /\ UNCHANGED <<value, enc, stream, dec, held, args>>
  /\ UNCHANGED offEnc

\* database/sql hands every argument to the statement's NamedValueChecker
\* and gives up at the first error.
CheckNamedValue_ ==
  /\ epc = "named"
  /\ IF \E i \in 1..Len(args) : CheckNamedValue(args[i]) # ""
     THEN /\ epc' = "rejected"
          /\ out' = NilMap(errCheckName)
     ELSE /\ epc' = "checked"
          /\ out' = out
  /\ UNCHANGED <<value, enc, stream, dec, held, args>>
  /\ UNCHANGED offEnc

\* stmt.ExecContext and stmt.QueryContext up to the call of exec or
\* runquery, called by database/sql or by a user of the driver types.
driverArgsToMap_ ==
  /\ epc \in {"named", "checked"}
  /\ out' = driverArgsToMap(args)
  /\ epc' = "mapped"
  /\ UNCHANGED <<value, enc, stream, dec, held, args>>
  /\ UNCHANGED offEnc

NextArgs ==
  \/ driverArgsToMap2_
  \/ CheckNamedValue_
  \/ driverArgsToMap_

SpecArgs == InitArgs /\ [][NextArgs]_vars

----------------------------------------------------------------------------
(* C28 *)

\* The keys of the entries m, and the value m has for key k.
Keys(m) == {m[i][1] : i \in 1..Len(m)}
ValueAt(m, k) == m[CHOOSE i \in 1..Len(m) : m[i][1] = k][2]
IsMapping(m) == \A i, j \in 1..Len(m) : m[i][1] = m[j][1] => i = j

KeyPlaces == {i \in 1..Len(args) : i % 2 = 1}

\* C28: driverArgsToMap2 returns no map and no error for no arguments; for
\* one argument that Map, or ErrNotMap when it is no Map; for more the odd
\* length error when their number is odd, else the key error when an
\* argument in a key place is no string, else the map that has for every
\* key the value that follows it (the last one when a key is repeated).
C28_PositionalArgs ==
  epc = "mapped2" =>
    IF Len(args) = 0 THEN out = NilMap("")
    ELSE IF Len(args) = 1
    THEN IF args[1].t = "Map" THEN out = Params(args[1].v)
         ELSE out = NilMap(ErrNotMap)
    ELSE IF Len(args) % 2 = 1 THEN out = NilMap(errOddLength)
    ELSE IF \E i \in KeyPlaces : args[i].t # "string"
    THEN out = NilMap(errNotString)
    ELSE /\ out.err = ""
         /\ ~out.nil
         /\ IsMapping(out.m)
         /\ Keys(out.m) = {args[i].v : i \in KeyPlaces}
         /\ \A i \in KeyPlaces :
              (\A j \in KeyPlaces : j > i => args[j].v # args[i].v)
                => ValueAt(out.m, args[i].v) = args[i + 1]

C28_Witness ==
  /\ epc = "mapped2"
  /\ Len(args) = 4
  /\ args[1] # args[3]
  /\ out.err = ""
  /\ Len(out.m) = 2

----------------------------------------------------------------------------
(* C29 *)

LoneMap == Len(args) = 1 /\ args[1].Value.t = "Map"

\* C29: for one or more named arguments that are not one Map alone,
\* driverArgsToMap returns an error when a name is empty and otherwise the
\* map from every name to its value.
\* The code does not do this: one named argument that is no Map gets
\* ErrNotMap whatever its name.
C29_NamedArgs ==
  (epc = "mapped" /\ Len(args) >= 1 /\ ~LoneMap) =>
    IF \E i \in 1..Len(args) : args[i].Name = <<>> THEN out.err # ""
    ELSE /\ out.err = ""
         /\ IsMapping(out.m)
         /\ Keys(out.m) = {args[i].Name : i \in 1..Len(args)}
         /\ \A i \in 1..Len(args) :
              (\A j \in 1..Len(args) : j > i => args[j].Name # args[i].Name)
                => ValueAt(out.m, args[i].Name) = args[i].Value

----------------------------------------------------------------------------
(* C31 *)

\* consume has handed op the FAILURE that answers request rq of op itself,
\* after ACK_FAILURE was answered SUCCESS.
OwnFailure(rq) ==
  /\ resp = Msg("FAILURE", rq, nops, resp.n)
  /\ err = Nil
  /\ \E i \in 1..Len(opLog) : opLog[i] = Msg("SUCCESS", "ACK_FAILURE", nops, 0)

\* C31: once Exec has read the SUCCESS of its RUN and the FAILURE that ends
\* the stream of its PULL_ALL, acknowledged with SUCCESS, it returns an
\* error: it does not call consume again.
\* The code does not do this: consumeAll loops until a SUCCESS, and the
\* FAILURE that consume returns with a nil error is appended like a RECORD.
C31_ExecReturns ==
  (op.name = "Exec" /\ OwnFailure("PULL_ALL")) => ~(pc = "all" /\ cpc = "decode")

----------------------------------------------------------------------------
(* C32 *)

\* The RUN of the transaction statement of op was answered FAILURE, its
\* PULL_ALL IGNORED and the ACK_FAILURE SUCCESS, and all three were read.
RunFailureDrained ==
  /\ op.name \in TxOps
  /\ run = Msg("FAILURE", "RUN:" \o op.tx, nops, 0)
  /\ \E i \in 1..Len(opLog) : opLog[i] = Msg("IGNORED", "PULL_ALL", nops, 0)
  /\ \E i \in 1..Len(opLog) : opLog[i] = Msg("SUCCESS", "ACK_FAILURE", nops, 0)

\* C32: when the RUN of BEGIN, COMMIT or ROLLBACK is answered FAILURE and
\* its PULL_ALL IGNORED, the operation returns an error after the
\* ACK_FAILURE exchange: it does not read a second terminal response.
\* The code does not do this: sendRunPullAllConsumeSingle calls consume a
\* second time because the first returned the FAILURE with a nil error.
C32_TxReturns ==
  RunFailureDrained => ~(pc = "term" /\ cpc = "decode")

----------------------------------------------------------------------------
(* C33 *)

\* An earlier Next on rows r returned the FAILURE that ended the stream of
\* its query (consume had acknowledged it).
StreamFailed(r) ==
  \E i \in 1..Len(hist) :
    /\ hist[i].op.name = "Next"
    /\ hist[i].op.r = r
    /\ hist[i].ret = UnrecognizedResponseErr(
                       Msg("FAILURE", "PULL_ALL", rows[r].q, hist[i].ret.v.n))

\* C33: Close of rows whose Next has returned the FAILURE that ended their
\* stream returns without reading from the connection.
\* The code does not do this: Next sets finished for a SUCCESS alone, so
\* Close calls Discard, which reads the next message or waits for one.
C33_CloseAfterFailure ==
  (op.name = "RowsClose" /\ op.r \in 1..Len(rows) /\ StreamFailed(op.r))
    => pc # "discard"

----------------------------------------------------------------------------
(* C34 *)

\* C34: a Begin called with status idle that returns an error leaves the
\* status idle.
\* The code does not do this: transac assigns statusInBadTx when the answer
\* to PULL_ALL is no SUCCESS, whatever statement it ran.
C34_FailedBeginKeepsStatus ==
  (Returned /\ op.name = "Begin" /\ entry.status = "idle" /\ ret # Nil)
    => status = "idle"

----------------------------------------------------------------------------
(* C35 *)

\* C35: no step sets bad back to false, and a conn.Close that returns nil
\* leaves bad true and the status idle.
C35_BadMonotone ==
  [][/\ bad => bad'
     /\ (op'.name = "Close" /\ pc' = "ready" /\ ret' = Nil)
          => (bad' /\ status' = "idle")]_vars

\* Close returned nil inside a transaction, and an operation called after it
\* has returned.
C35_Witness ==
  /\ Returned
  /\ bad
  /\ status = "idle"
  /\ ret = E("ErrBadConn")
  /\ \E i \in 1..Len(hist) :
       /\ hist[i].op.name = "Close"
       /\ hist[i].ret = Nil
       /\ i > 1
       /\ hist[i - 1].op.name = "Begin"
       /\ hist[i - 1].ret = Nil

----------------------------------------------------------------------------
(* C36 *)

\* An earlier Next on rows r returned io.EOF: it set finished.
ReachedEnd(r) ==
  \E i \in 1..Len(hist) :
    /\ hist[i].op.name = "Next"
    /\ hist[i].op.r = r
    /\ hist[i].ret = E("EOF")

\* C36: a Next on rows whose Next has returned io.EOF does not call consume
\* and reads no message.
\* The code does not do this: Next tests closed and never finished.
C36_NextAfterEnd ==
  (op.name = "Next" /\ ReachedEnd(op.r)) => (pc # "next" /\ opRead = <<>>)

----------------------------------------------------------------------------
(* C37 *)

\* The bytes a new Encoder with the chunk size of enc writes for value.
OwnFraming == Encode([NewEncoder EXCEPT !.size = enc.size], <<>>, value).wire

\* C37: after an Encode that returned an error no byte is buffered, and the
\* next Encode that returns nil writes the framing of its own value and
\* nothing else.
\* The code does not do this: Encode returns the error of encode without
\* touching the buffer, so what encode wrote before it failed starts the
\* next message.
C37_NoResidue ==
  /\ epc = "failed" => enc.n = 0
  /\ epc = "reencoded" => SubSeq(stream, held.mark + 1, Len(stream)) = OwnFraming

----------------------------------------------------------------------------
(* conn.SetChunkSize and conn.encode *)

MaxWritten == 8

\* The Encoder that conn.encode makes when conn.enc is nil, after its
\* c.enc.SetChunkSize(size).  Nothing is buffered, so the loop of
\* SetChunkSize is entered for size 0 alone, and is then never left: every
\* turn leaves n = size.
connEncoder(sz) ==
  [w |-> [NewEncoder EXCEPT !.size = sz],
   err |-> IF sz # NewEncoder.size /\ NewEncoder.n >= sz THEN "hang" ELSE ""]

\* conn.encode once conn.enc is c.w.
connEncode(c, wire, v) ==
  IF c.err # "" THEN [w |-> c.w, wire |-> wire, err |-> c.err]
  ELSE Encode(c.w, wire, v)

ConnValues == IntValues \cup {VString(Pad(97, n)) : n \in {0, 1, 15, 16}}

\* A conn before anything is written to it.  newConn writes INIT with
\* conn.encode before it returns the conn.
InitChunk ==
  /\ ConnAtInit
  /\ value = VNil
  /\ enc = <<>>
  /\ stream = <<>>
  /\ dec = <<>>
  /\ epc = "conn"
  /\ held = NoHeld
  /\ args = <<>>
  /\ out = <<>>

\* conn.SetChunkSize.
connSetChunkSize(chunkSize) ==
  /\ epc \in {"conn", "written"}
  /\ connSize' = chunkSize
  /\ epc' = "conn"
  /\ UNCHANGED <<value, enc, stream, dec, held, args, out>>
  /\ UNCHANGED <<connState, faults, vers, sumVars>>

\* conn.encode(v).
connEncode_(v) ==
  /\ epc \in {"conn", "written"}
  /\ Len(stream) < MaxWritten
  /\ value' = v
  /\ held' = [buf |-> <<>>, mark |-> Len(stream)]
  /\ LET s == connEncode(IF enc = <<>> THEN connEncoder(connSize)
                         ELSE [w |-> enc, err |-> ""], stream, v)
     IN /\ enc' = s.w
        /\ stream' = s.wire
        /\ epc' = IF s.err = "" THEN "written" ELSE s.err
  /\ UNCHANGED <<dec, args, out, connSize>>
  /\ UNCHANGED <<connState, faults, vers, sumVars>>

NextChunk ==
  \/ \E chunkSize \in ChunkSizes : connSetChunkSize(chunkSize)
  \/ \E v \in ConnValues : connEncode_(v)

SpecChunk == InitChunk /\ [][NextChunk]_vars

----------------------------------------------------------------------------
(* C38 *)

\* The message conn.encode wrote last.
LastMessage == SubSeq(stream, held.mark + 1, Len(stream))

\* C38: a message written after conn.SetChunkSize(s), s >= 1, is chunks of
\* at most s bytes each and one 00 00.
\* The code does not do this: conn.encode hands conn.size to the Encoder
\* only when it makes it, for the first message, so a later SetChunkSize
\* changes nothing; and a chunk may exceed the size the Encoder has (C25).
C38_ConnChunkSize ==
  (epc = "written" /\ connSize >= 1) =>
    /\ Chunks(LastMessage).ok
    /\ \A i \in 1..Len(Chunks(LastMessage).chunks) :
         Len(Chunks(LastMessage).chunks[i]) <= connSize

----------------------------------------------------------------------------
(* C39 *)

\* C39: MaybeMap returns true or false for every byte sequence: it never
\* slices outside its argument.
\* The code does not do this: for a chunk length of len(m) or len(m) - 1
\* it evaluates m[2+clen:] with 2 + clen > len(m).
C39_MaybeMapTotal ==
  epc = "tested" => (out.err # "panic" /\ out.v \in BOOLEAN)

----------------------------------------------------------------------------
(* C40 *)

\* C40: Decode returns a value or an error for every stream it reads: it
\* never panics.
\* The code does not do this: the length of a String8 or a Slice8 with the
\* high bit set is read as a negative int: d.scratch[0:size] and
\* make([]interface{}, size) panic.
C40_DecodeTotal ==
  epc = "decoded" => dec.err # "panic"

====
